---------------------------- MODULE Spec2Model ----------------------------
(***************************************************************************)
(* Clinical-notes backend: the tenant-partitioned note repository over an  *)
(* ordered key-value table (partition key PK, sort key SK), its key        *)
(* scheme, its pagination cursor and its optimistic-concurrency protocol.  *)
(*                                                                         *)
(* A string is modelled as a sequence of symbols.  A symbol is one         *)
(* character ("#", "~") or an indivisible word of characters ("CLINIC",    *)
(* "d1" for a YYYY-MM-DD date, "n1" for a uuid).  Strings are ordered      *)
(* lexicographically by the rank of their symbols, as the table orders     *)
(* sort keys by their bytes.                                               *)
(***************************************************************************)
EXTENDS Integers, Sequences, FiniteSets, TLC

-----------------------------------------------------------------------------
(* Bounds of the model *)

\* number of note ids uuidv4 can hand out, hence of notes ever created
MaxNotes == 2
\* versions above this are not explored (guard of the Update action)
MaxVersion == 3
\* number of Update calls that may wait for their re-read at the same time
MaxInflight == 1
\* largest page size requested from List in the main specification
MaxLimit == 1
\* number of notes ever created in the paging specification
MaxPagingNotes == 4
\* largest page size of a paging session
MaxPagingLimit == 3
\* number of notes ever created in the date-range specification
MaxRangeNotes == 3
\* largest page size requested in the date-range specification
MaxRangeLimit == 2

None == <<"none">>

\* an absent list of strings
NoTags == <<None>>

-----------------------------------------------------------------------------
(* Strings *)

Rank(s) ==
  CASE s = "#" -> 1
    [] s = "d1" -> 11
    [] s = "d2" -> 12
    [] s = "d3" -> 13
    [] s = "d4" -> 14
    [] s = "d5" -> 15
    [] s = "A" -> 20
    [] s = "B" -> 21
    [] s = "CLINIC" -> 22
    [] s = "METADATA" -> 23
    [] s = "NOTE" -> 24
    [] s = "PATIENT" -> 25
    [] s = "n1" -> 31
    [] s = "n2" -> 32
    [] s = "n3" -> 33
    [] s = "n4" -> 34
    [] s = "n5" -> 35
    [] s = "n6" -> 36
    [] s = "n7" -> 37
    [] s = "x" -> 40
    [] s = "y" -> 41
    [] s = "~" -> 50
    [] OTHER -> 0

RECURSIVE StrLessFrom(_, _, _)
StrLessFrom(a, b, i) ==
  IF i > Len(b) THEN FALSE
  ELSE IF i > Len(a) THEN TRUE
  ELSE IF Rank(a[i]) < Rank(b[i]) THEN TRUE
  ELSE IF Rank(a[i]) > Rank(b[i]) THEN FALSE
  ELSE StrLessFrom(a, b, i + 1)

\* a < b in the table's byte order
StrLess(a, b) == StrLessFrom(a, b, 1)

StrLeq(a, b) == a = b \/ StrLess(a, b)

\* String.prototype.startsWith, and the table's begins_with
StartsWith(s, prefix) ==
  /\ Len(s) >= Len(prefix)
  /\ SubSeq(s, 1, Len(prefix)) = prefix

-----------------------------------------------------------------------------
(* Key scheme *)

buildPK(clinicId, patientId) ==
  <<"CLINIC", "#">> \o clinicId \o <<"#", "PATIENT", "#">> \o patientId

buildSK(studyDate, noteId) ==
  <<"NOTE", "#">> \o studyDate \o <<"#">> \o noteId


-----------------------------------------------------------------------------
(* Cursor codec.  A cursor is a string of base64url characters; the        *)
(* character that encodes the JSON symbol s is written <<"b64", s>>.  JSON *)
(* text is a string over the symbols { } : , q (the double quote), the     *)
(* backslash and the symbols of the quoted strings.                        *)

\* the characters of a string as JSON writes them: a double quote and a
\* backslash are each preceded by a backslash
RECURSIVE JsonEscape(_)
JsonEscape(str) ==
  IF str = <<>> THEN <<>>
  ELSE (IF Head(str) \in {"q", "\\"} THEN <<"\\", Head(str)>> ELSE <<Head(str)>>)
         \o JsonEscape(Tail(str))

\* (mutation) a string put between quotes as it is
JsonQuoteRaw(str) == <<"q">> \o str \o <<"q">>

JsonQuote(str) == <<"q">> \o JsonEscape(str) \o <<"q">>

\* JSON.stringify({ PK, SK })
JsonStringify(cursorData) ==
  <<"{">> \o JsonQuote(<<"PK">>) \o <<":">> \o JsonQuote(cursorData.PK)
    \o <<",">> \o JsonQuote(<<"SK">>) \o <<":">> \o JsonQuote(cursorData.SK)
    \o <<"}">>

\* Buffer.from(json, 'utf-8').toString('base64url')
Base64UrlEncode(text) == [i \in 1..Len(text) |-> <<"b64", text[i]>>]

\* Buffer.from(cursor, 'base64url').toString('utf-8')
Base64UrlDecode(cursor) == [i \in 1..Len(cursor) |-> cursor[i][2]]

JsonFail == [ok |-> FALSE, type |-> "fail", v |-> <<>>, next |-> 0]

\* the characters of a quoted string from position j of text t on, up to the
\* closing quote; acc holds the characters read so far
RECURSIVE JsonScanString(_, _, _)
JsonScanString(t, j, acc) ==
  IF j > Len(t) THEN JsonFail
  ELSE IF t[j] = "q"
       THEN [ok |-> TRUE, type |-> "string", v |-> acc, next |-> j + 1]
  ELSE IF t[j] = "\\"
       THEN IF j + 1 <= Len(t) /\ t[j + 1] \in {"q", "\\"}
            THEN JsonScanString(t, j + 2, Append(acc, t[j + 1]))
            ELSE JsonFail
  ELSE JsonScanString(t, j + 1, Append(acc, t[j]))

\* a quoted string starting at position i of text t
JsonParseString(t, i) ==
  IF i > Len(t) \/ t[i] # "q" THEN JsonFail
  ELSE JsonScanString(t, i + 1, <<>>)

\* a member value starting at position i: a string, or null / a number
JsonParseValue(t, i) ==
  IF i > Len(t) THEN JsonFail
  ELSE IF t[i] = "q" THEN JsonParseString(t, i)
  ELSE IF t[i] \in {"null", "0"}
       THEN [ok |-> TRUE, type |-> t[i], v |-> <<>>, next |-> i + 1]
  ELSE JsonFail

RECURSIVE JsonParseMembers(_, _, _)

\* what follows the member (key, val): the end of the object or a further member
JsonParseAfterMember(t, acc, key, val) ==
  IF ~val.ok \/ val.next > Len(t) THEN JsonFail
  ELSE LET acc2 == (key.v :> [type |-> val.type, v |-> val.v]) @@ acc IN
       IF t[val.next] = "}"
       THEN IF val.next = Len(t)
            THEN [ok |-> TRUE, type |-> "object", v |-> acc2, next |-> val.next + 1]
            ELSE JsonFail
       ELSE IF t[val.next] = ","
       THEN JsonParseMembers(t, val.next + 1, acc2)
       ELSE JsonFail

\* what follows the key of a member: a colon and the value
JsonParseAfterKey(t, acc, key) ==
  IF ~key.ok \/ key.next > Len(t) \/ t[key.next] # ":" THEN JsonFail
  ELSE JsonParseAfterMember(t, acc, key, JsonParseValue(t, key.next + 1))

\* the members of an object from position i on; acc maps the keys read so far
JsonParseMembers(t, i, acc) == JsonParseAfterKey(t, acc, JsonParseString(t, i))

\* a text that is one value: nothing may follow the value
JsonParseWhole(t, val) ==
  IF val.ok /\ val.next = Len(t) + 1 THEN val ELSE JsonFail

\* JSON.parse: ok = FALSE stands for the SyntaxError it throws
JsonParse(t) ==
  IF Len(t) = 0 THEN JsonFail
  ELSE IF t[1] = "{"
       THEN IF Len(t) = 2 /\ t[2] = "}"
            THEN [ok |-> TRUE, type |-> "object", v |-> <<>>, next |-> 3]
            ELSE JsonParseMembers(t, 2, <<>>)
  ELSE JsonParseWhole(t, JsonParseValue(t, 1))

encodeCursor(lastEvaluatedKey) ==
  Base64UrlEncode(JsonStringify([PK |-> lastEvaluatedKey.PK, SK |-> lastEvaluatedKey.SK]))

\* the member of a parsed object, "undefined" when it has none
JsonMember(obj, key) ==
  IF key \in DOMAIN obj THEN obj[key] ELSE [type |-> "undefined", v |-> <<>>]

\* no cursor: undefined, or the empty string, which the code treats alike
NoCursor == <<>>

\* what decodeCursor returns for undefined
NoKey == [PK |-> None, SK |-> None]

\* the checks of decodeCursor on the members PK and SK of cursorData
CursorDataKey(pk, sk) ==
  IF \/ pk.type # "string"
     \/ sk.type # "string"
     \/ ~StartsWith(pk.v, <<"CLINIC", "#">>)
     \/ ~StartsWith(sk.v, <<"NOTE", "#">>)
  THEN NoKey
  ELSE [PK |-> pk.v, SK |-> sk.v]

\* decodeCursor from the outcome of JSON.parse on
DecodeParsed(parsed) ==
  IF ~parsed.ok THEN NoKey                    \* SyntaxError, caught
  ELSE IF parsed.type = "null" THEN NoKey     \* TypeError on .PK, caught
  ELSE IF parsed.type # "object" THEN NoKey   \* .PK of a number or string is undefined
  ELSE CursorDataKey(JsonMember(parsed.v, <<"PK">>), JsonMember(parsed.v, <<"SK">>))

decodeCursor(cursor) == DecodeParsed(JsonParse(Base64UrlDecode(cursor)))

-----------------------------------------------------------------------------
(* The table.  It is a set of items, at most one per (PK, SK).  An         *)
(* attribute an item does not have is None.  The table is taken to answer  *)
(* every request (no throttling or outage) and to return a whole query     *)
(* result in one response.                                                 *)

ItemsAt(tbl, pk, sk) == {it \in tbl : it.PK = pk /\ it.SK = sk}

RECURSIVE SortBySK(_)
\* the items of S in ascending sort-key order
SortBySK(S) ==
  IF S = {} THEN <<>>
  ELSE LET lo == CHOOSE x \in S : \A y \in S : StrLeq(x.SK, y.SK) IN
       <<lo>> \o SortBySK(S \ {lo})

Reverse(seq) == [i \in 1..Len(seq) |-> seq[Len(seq) + 1 - i]]

\* KeyConditionExpression on the sort key
KeyCondHolds(kc, sk) ==
  CASE kc.kind = "begins_with" -> StartsWith(sk, kc.lo)
    [] kc.kind = "between" -> StrLeq(kc.lo, sk) /\ StrLeq(sk, kc.hi)
    [] kc.kind = "ge" -> StrLeq(kc.lo, sk)

\* (mutation) a filter without attribute_not_exists(deletedAt)
FilterHoldsDeletedToo(f, it) ==
  /\ f.noteId # None => it.noteId = f.noteId
  /\ f.tag # None => \E i \in 1..Len(it.tags) : it.tags[i] = f.tag

\* FilterExpression: attribute_not_exists(deletedAt), and on demand
\* noteId = :noteId and contains(tags, :tag)
FilterHolds(f, it) ==
  /\ it.deletedAt = None
  /\ f.noteId # None => it.noteId = f.noteId
  /\ f.tag # None => \E i \in 1..Len(it.tags) : it.tags[i] = f.tag

Take(seq, n) == IF Len(seq) <= n THEN seq ELSE SubSeq(seq, 1, n)

\* QueryCommand.  limit = 0 stands for no Limit, esk = NoKey for no
\* ExclusiveStartKey.  The table reads the items that meet the key condition
\* in sort-key order from the start key on, stops after Limit items, and only
\* then applies the filter.  A start key of another partition is rejected.
Query(tbl, pk, kc, f, limit, esk, forward) ==
  LET asc == SortBySK({it \in tbl : it.PK = pk /\ KeyCondHolds(kc, it.SK)})
      ordered == IF forward THEN asc ELSE Reverse(asc)
      beyond(it) == IF forward THEN StrLess(esk.SK, it.SK) ELSE StrLess(it.SK, esk.SK)
      rest == IF esk = NoKey THEN ordered ELSE SelectSeq(ordered, beyond)
      scanned == IF limit = 0 THEN rest ELSE Take(rest, limit)
      keep(it) == FilterHolds(f, it)
  IN IF esk # NoKey /\ esk.PK # pk
     THEN [err |-> "ValidationException", Items |-> <<>>]
     ELSE [err |-> "", Items |-> SelectSeq(scanned, keep)]

-----------------------------------------------------------------------------
(* Note repository *)

itemToNote(item) ==
  [noteId |-> item.noteId,
   clinicId |-> item.clinicId,
   patientId |-> item.patientId,
   studyDate |-> item.studyDate,
   title |-> item.title,
   content |-> item.content,
   noteType |-> item.noteType,
   tags |-> IF item.tags = NoTags THEN <<>> ELSE item.tags,
   attachments |-> IF item.attachments = None THEN <<>> ELSE item.attachments,
   createdAt |-> item.createdAt,
   updatedAt |-> item.updatedAt,
   createdBy |-> item.createdBy,
   createdByName |-> IF item.createdByName = None THEN item.createdBy ELSE item.createdByName,
   updatedBy |-> item.updatedBy,
   updatedByName |-> IF item.updatedByName = None THEN item.updatedBy ELSE item.updatedByName,
   version |-> item.version,
   deletedAt |-> item.deletedAt,
   deletedBy |-> item.deletedBy]

\* the item create() puts
NewItem(clinicId, patientId, userId, username, input, noteId, now) ==
  [PK |-> buildPK(clinicId, patientId),
   SK |-> buildSK(input.studyDate, noteId),
   noteId |-> noteId,
   clinicId |-> clinicId,
   patientId |-> patientId,
   studyDate |-> input.studyDate,
   title |-> input.title,
   content |-> input.content,
   noteType |-> input.noteType,
   tags |-> IF input.tags = NoTags THEN <<>> ELSE input.tags,
   attachments |-> IF input.attachments = None THEN <<>> ELSE input.attachments,
   createdAt |-> now,
   updatedAt |-> now,
   createdBy |-> userId,
   createdByName |-> username,
   updatedBy |-> userId,
   updatedByName |-> username,
   version |-> 1,
   deletedAt |-> None,
   deletedBy |-> None,
   entityType |-> <<"NOTE">>]

\* (mutation) a put without its ConditionExpression
CreateConditionNone(tbl, item) == item \in {item}

\* PutCommand condition of create(): attribute_not_exists(PK)
CreateCondition(tbl, item) == ItemsAt(tbl, item.PK, item.SK) = {}

\* PutCommand: the item takes the place of whatever is stored at its key
Put(tbl, item) == (tbl \ ItemsAt(tbl, item.PK, item.SK)) \cup {item}

\* (mutation) findById without the check of deletedAt
findByIdDeletedToo(tbl, clinicId, patientId, noteId, studyDate) ==
  LET found == ItemsAt(tbl, buildPK(clinicId, patientId), buildSK(studyDate, noteId)) IN
  IF found = {} THEN <<>>
  ELSE <<itemToNote(CHOOSE it \in found : TRUE)>>

\* findById: the notes it returns, <<>> for null
findById(tbl, clinicId, patientId, noteId, studyDate) ==
  LET found == ItemsAt(tbl, buildPK(clinicId, patientId), buildSK(studyDate, noteId)) IN
  IF found = {} THEN <<>>
  ELSE LET item == CHOOSE it \in found : TRUE IN
       IF item.deletedAt # None THEN <<>> ELSE <<itemToNote(item)>>

\* (mutation) findByIdWithoutStudyDate with Limit: 1 on its query
findByIdWithoutStudyDateLimited(tbl, clinicId, patientId, noteId) ==
  LET result == Query(tbl, buildPK(clinicId, patientId),
                      [kind |-> "begins_with", lo |-> <<"NOTE", "#">>, hi |-> <<>>],
                      [noteId |-> noteId, tag |-> None],
                      1, NoKey, TRUE) IN
  IF Len(result.Items) = 0 THEN <<>> ELSE <<itemToNote(result.Items[1])>>

\* findByIdWithoutStudyDate: the notes it returns, <<>> for null.  Its query
\* has no Limit and no ExclusiveStartKey and scans in ascending order
findByIdWithoutStudyDate(tbl, clinicId, patientId, noteId) ==
  LET result == Query(tbl, buildPK(clinicId, patientId),
                      [kind |-> "begins_with", lo |-> <<"NOTE", "#">>, hi |-> <<>>],
                      [noteId |-> noteId, tag |-> None],
                      0, NoKey, TRUE) IN
  IF Len(result.Items) = 0 THEN <<>> ELSE <<itemToNote(result.Items[1])>>

\* (mutation) the upper bound of the range without the closing "~"
ListKeyConditionOpenEnd(studyDateFrom, studyDateTo) ==
  IF studyDateFrom # None /\ studyDateTo # None
  THEN [kind |-> "between", lo |-> <<"NOTE", "#">> \o studyDateFrom,
        hi |-> <<"NOTE", "#">> \o studyDateTo]
  ELSE IF studyDateFrom # None
  THEN [kind |-> "ge", lo |-> <<"NOTE", "#">> \o studyDateFrom, hi |-> <<>>]
  ELSE IF studyDateTo # None
  THEN [kind |-> "between", lo |-> <<"NOTE", "#">>,
        hi |-> <<"NOTE", "#">> \o studyDateTo]
  ELSE [kind |-> "begins_with", lo |-> <<"NOTE", "#">>, hi |-> <<>>]

\* (mutation) the range up to studyDateTo starts below the prefix of the notes
ListKeyConditionFromStart(studyDateFrom, studyDateTo) ==
  IF studyDateFrom # None /\ studyDateTo # None
  THEN [kind |-> "between", lo |-> <<"NOTE", "#">> \o studyDateFrom,
        hi |-> <<"NOTE", "#">> \o studyDateTo \o <<"~">>]
  ELSE IF studyDateFrom # None
  THEN [kind |-> "ge", lo |-> <<"NOTE", "#">> \o studyDateFrom, hi |-> <<>>]
  ELSE IF studyDateTo # None
  THEN [kind |-> "between", lo |-> <<>>,
        hi |-> <<"NOTE", "#">> \o studyDateTo \o <<"~">>]
  ELSE [kind |-> "begins_with", lo |-> <<"NOTE", "#">>, hi |-> <<>>]

\* the key condition list() builds from studyDateFrom / studyDateTo
ListKeyCondition(studyDateFrom, studyDateTo) ==
  IF studyDateFrom # None /\ studyDateTo # None
  THEN [kind |-> "between", lo |-> <<"NOTE", "#">> \o studyDateFrom,
        hi |-> <<"NOTE", "#">> \o studyDateTo \o <<"~">>]
  ELSE IF studyDateFrom # None
  THEN [kind |-> "ge", lo |-> <<"NOTE", "#">> \o studyDateFrom, hi |-> <<>>]
  ELSE IF studyDateTo # None
  THEN [kind |-> "between", lo |-> <<"NOTE", "#">>,
        hi |-> <<"NOTE", "#">> \o studyDateTo \o <<"~">>]
  ELSE [kind |-> "begins_with", lo |-> <<"NOTE", "#">>, hi |-> <<>>]

\* (mutation) list() asks for the page and no more
ListQueryLimitExact(limit) == limit

\* the Limit list() passes to its query: one more than the page, to see
\* whether more remain
ListQueryLimit(limit) == limit + 1

\* (mutation) list() queries the partition its cursor names
ListPartitionOfCursor(clinicId, patientId, exclusiveStartKey) ==
  IF exclusiveStartKey # NoKey THEN exclusiveStartKey.PK ELSE buildPK(clinicId, patientId)

\* the partition list() queries; the cursor has no say in it
ListPartition(clinicId, patientId, exclusiveStartKey) == buildPK(clinicId, patientId)

\* list() from the items of its query on: hasMore, the page, nextCursor
ListPage(err, items, hasMore) ==
  [err |-> err,
   items |-> [i \in 1..Len(items) |-> itemToNote(items[i])],
   nextCursor |-> IF hasMore /\ Len(items) > 0
                  THEN encodeCursor(items[Len(items)]) ELSE NoCursor,
   hasMore |-> hasMore]

\* list() from the answer of its query on: the item beyond the page is dropped
ListResult(limit, result) ==
  ListPage(result.err,
           IF Len(result.Items) > limit
           THEN SubSeq(result.Items, 1, Len(result.Items) - 1) ELSE result.Items,
           Len(result.Items) > limit)

\* list() from the decoded cursor on: the query
ListQuery(tbl, clinicId, patientId, options, exclusiveStartKey) ==
  ListResult(options.limit,
             Query(tbl, ListPartition(clinicId, patientId, exclusiveStartKey),
                   ListKeyCondition(options.studyDateFrom, options.studyDateTo),
                   [noteId |-> None, tag |-> options.tag],
                   ListQueryLimit(options.limit), exclusiveStartKey, FALSE))

\* (mutation) list() refuses a cursor it cannot decode
listRejectingCursor(tbl, clinicId, patientId, options) ==
  IF options.cursor # NoCursor /\ decodeCursor(options.cursor) = NoKey
  THEN ListPage("ValidationError", <<>>, FALSE)
  ELSE ListQuery(tbl, clinicId, patientId, options,
                 IF options.cursor # NoCursor THEN decodeCursor(options.cursor) ELSE NoKey)

\* list(): options.cursor = NoCursor when the caller passes none
list(tbl, clinicId, patientId, options) ==
  ListQuery(tbl, clinicId, patientId, options,
            IF options.cursor # NoCursor THEN decodeCursor(options.cursor) ELSE NoKey)

\* (mutation) a condition of update() without version = :expectedVersion
UpdateConditionAnyVersion(tbl, pk, sk, expectedVersion) ==
  \E it \in ItemsAt(tbl, pk, sk) : it.deletedAt = None

\* ConditionExpression of update()
UpdateCondition(tbl, pk, sk, expectedVersion) ==
  \E it \in ItemsAt(tbl, pk, sk) : it.deletedAt = None /\ it.version = expectedVersion

\* (mutation) update() adds 2 to the version
UpdatedItemSkipsVersion(item, userId, username, input, now) ==
  [item EXCEPT
     !.updatedAt = now,
     !.updatedBy = userId,
     !.updatedByName = username,
     !.version = item.version + 2,
     !.title = IF input.title # None THEN input.title ELSE item.title,
     !.content = IF input.content # None THEN input.content ELSE item.content,
     !.attachments = IF input.attachments # None THEN input.attachments ELSE item.attachments]

\* (mutation) update() leaves the version as it is
UpdatedItemKeepsVersion(item, userId, username, input, now) ==
  [item EXCEPT
     !.updatedAt = now,
     !.updatedBy = userId,
     !.updatedByName = username,
     !.title = IF input.title # None THEN input.title ELSE item.title,
     !.content = IF input.content # None THEN input.content ELSE item.content,
     !.attachments = IF input.attachments # None THEN input.attachments ELSE item.attachments]

\* (mutation) update() that also takes the note over for the editor
UpdatedItemTakesOver(item, userId, username, input, now) ==
  [item EXCEPT
     !.updatedAt = now,
     !.updatedBy = userId,
     !.updatedByName = username,
     !.createdBy = userId,
     !.version = item.version + 1,
     !.title = IF input.title # None THEN input.title ELSE item.title,
     !.content = IF input.content # None THEN input.content ELSE item.content,
     !.attachments = IF input.attachments # None THEN input.attachments ELSE item.attachments]

\* the item after the SET of update()
UpdatedItem(item, userId, username, input, now) ==
  [item EXCEPT
     !.updatedAt = now,
     !.updatedBy = userId,
     !.updatedByName = username,
     !.version = item.version + 1,
     !.title = IF input.title # None THEN input.title ELSE item.title,
     !.content = IF input.content # None THEN input.content ELSE item.content,
     !.attachments = IF input.attachments # None THEN input.attachments ELSE item.attachments]

\* (mutation) softDelete() conditioned on attribute_exists(PK) alone
SoftDeleteConditionExists(tbl, pk, sk) == ItemsAt(tbl, pk, sk) # {}

\* ConditionExpression of softDelete()
SoftDeleteCondition(tbl, pk, sk) ==
  \E it \in ItemsAt(tbl, pk, sk) : it.deletedAt = None

\* (mutation) the SET of softDelete() also counts as a revision
SoftDeletedItemBumpsVersion(item, userId, now) ==
  [item EXCEPT !.deletedAt = now, !.deletedBy = userId, !.version = item.version + 1]

\* the item after the SET of softDelete()
SoftDeletedItem(item, userId, now) ==
  [item EXCEPT !.deletedAt = now, !.deletedBy = userId]

-----------------------------------------------------------------------------
(* Inputs of the main specification *)

\* the (clinicId, patientId) scopes callers act in.  The first two are two
\* clinics with the same patientId; the last two have identifiers that contain
\* the delimiter
Scopes ==
  {[clinicId |-> <<"A">>, patientId |-> <<"y">>],
   [clinicId |-> <<"B">>, patientId |-> <<"y">>],
   [clinicId |-> <<"A">>, patientId |-> <<"x", "#", "PATIENT", "#", "y">>],
   [clinicId |-> <<"A", "#", "PATIENT", "#", "x">>, patientId |-> <<"y">>]}

Dates == {<<"d1">>, <<"d2">>}

NoteIdSyms == <<"n1", "n2", "n3", "n4", "n5", "n6", "n7">>

\* the k-th id uuidv4 hands out
IdOf(k) == <<NoteIdSyms[k]>>

NoteIds == {IdOf(k) : k \in 1..MaxNotes}

\* who calls and when: userId, username and the clock reading of the call
Actors ==
  {[userId |-> <<"u1">>, username |-> <<"alice">>, now |-> <<"t1">>],
   [userId |-> <<"u2">>, username |-> <<"bob">>, now |-> <<"t2">>]}

CreateInputs ==
  {[studyDate |-> d, title |-> <<"T1">>, content |-> <<"C1">>, noteType |-> None,
    tags |-> NoTags, attachments |-> None] : d \in Dates}

\* UpdateNoteInput: a field the caller leaves out is None
UpdateInputs ==
  {[title |-> <<"T2">>, content |-> None, noteType |-> None, tags |-> NoTags,
    attachments |-> None, version |-> v] : v \in 1..MaxVersion}
  \cup
  {[title |-> None, content |-> <<"C2">>, noteType |-> <<"followup">>, tags |-> <<<<"tg">>>>,
    attachments |-> <<"a1">>, version |-> v] : v \in 1..MaxVersion}

-----------------------------------------------------------------------------
(* State *)

VARIABLES
  store,     \* the table
  issued,    \* how many fresh ids uuidv4 has handed out
  pending,   \* update() calls whose conditional write failed, before their re-read
  last,      \* the call that returned last, with what it returned
  won,       \* history: <<PK, SK, expectedVersion>> of every update() that succeeded
  tomb,      \* history: <<PK, SK>> of every softDelete() that succeeded
  session,   \* the paging session of a client that follows nextCursor
  probe,     \* the identifiers handed to the key builders, and the keys built
  clock,     \* Date.now(), in seconds
  rate       \* the rate limiter: calls under way, the last result, and a history

vars == <<store, issued, pending, last, won, tomb, session, probe, clock, rate>>

\* an update() input that names no field
NoInput ==
  [title |-> None, content |-> None, noteType |-> None, tags |-> NoTags,
   attachments |-> None, version |-> 0]

\* the record of a returned call
Returned(op, clinicId, patientId, noteId, studyDate, out, notes) ==
  [op |-> op, clinicId |-> clinicId, patientId |-> patientId, noteId |-> noteId,
   studyDate |-> studyDate, out |-> out, notes |-> notes,
   expected |-> 0, current |-> 0, seen |-> 0, limit |-> 0, cursor |-> NoCursor,
   studyDateFrom |-> None, studyDateTo |-> None, tag |-> None, input |-> NoInput,
   nextCursor |-> NoCursor, hasMore |-> FALSE, fault |-> ""]

\* no paging session is open
NoSession == [state |-> "idle", limit |-> 0, pages |-> <<>>]

\* no identifiers were handed to the key builders
NoProbe == [built |-> FALSE, a |-> <<>>, b |-> <<>>, keyA |-> <<>>, keyB |-> <<>>]

\* no call of the rate limiter was made
NoRate ==
  [inflight |-> {},
   result |-> [op |-> "none", error |-> FALSE, at |-> 0,
               identifier |-> <<>>, name |-> <<>>, window |-> 0, before |-> 0,
               allowed |-> FALSE, current |-> 0, limit |-> 0, retryAfter |-> 0],
   enforced |-> [out |-> "", retryAfter |-> 0],
   log |-> {},
   returned |-> {},
   faults |-> 0]

Init ==
  /\ store = {}
  /\ issued = 0
  /\ pending = {}
  /\ last = Returned("init", <<>>, <<>>, <<>>, <<>>, "", <<>>)
  /\ won = {}
  /\ tomb = {}
  /\ session = NoSession
  /\ clock = 0
  /\ rate = NoRate
  /\ probe = NoProbe

\* uuidv4(): a fresh id (at most maxIds of them in a run), or (a collision) the
\* id of a stored note
UuidChoices(maxIds) ==
  (IF issued < maxIds THEN {IdOf(issued + 1)} ELSE {})
    \cup {it.noteId : it \in {x \in store : StartsWith(x.SK, <<"NOTE", "#">>)}}

\* A repeated id is followed only where it meets a stored key, which is the
\* case the condition of the put is there for.

Create(clinicId, patientId, actor, input, noteId, maxIds) ==
  LET item == NewItem(clinicId, patientId, actor.userId, actor.username, input, noteId, actor.now)
      fresh == issued < maxIds /\ noteId = IdOf(issued + 1)
  IN /\ noteId \in UuidChoices(maxIds)
     /\ fresh \/ ItemsAt(store, item.PK, item.SK) # {}
     /\ issued' = IF fresh THEN issued + 1 ELSE issued
     /\ IF CreateCondition(store, item)
        THEN /\ store' = Put(store, item)
             /\ last' = Returned("create", clinicId, patientId, noteId, input.studyDate,
                                 "ok", <<itemToNote(item)>>)
        ELSE /\ store' = store
             /\ last' = Returned("create", clinicId, patientId, noteId, input.studyDate,
                                 "ConditionalCheckFailedException", <<>>)
     /\ UNCHANGED <<pending, won, tomb, session, probe, clock, rate>>

FindById(clinicId, patientId, noteId, studyDate) ==
  /\ last' = Returned("findById", clinicId, patientId, noteId, studyDate, "ok",
                      findById(store, clinicId, patientId, noteId, studyDate))
  /\ UNCHANGED <<store, issued, pending, won, tomb, session, probe, clock, rate>>

FindByIdWithoutStudyDate(clinicId, patientId, noteId) ==
  /\ last' = Returned("findByIdWithoutStudyDate", clinicId, patientId, noteId, <<>>, "ok",
                      findByIdWithoutStudyDate(store, clinicId, patientId, noteId))
  /\ UNCHANGED <<store, issued, pending, won, tomb, session, probe, clock, rate>>

\* the record of a returned list() call
ListReturned(clinicId, patientId, options, page) ==
  IF page.err # ""
  THEN [Returned("list", clinicId, patientId, <<>>, <<>>, page.err, <<>>)
          EXCEPT !.limit = options.limit, !.cursor = options.cursor,
                 !.studyDateFrom = options.studyDateFrom,
                 !.studyDateTo = options.studyDateTo, !.tag = options.tag]
  ELSE [Returned("list", clinicId, patientId, <<>>, <<>>, "ok", page.items)
          EXCEPT !.limit = options.limit, !.cursor = options.cursor,
                 !.studyDateFrom = options.studyDateFrom,
                 !.studyDateTo = options.studyDateTo, !.tag = options.tag,
                 !.nextCursor = page.nextCursor, !.hasMore = page.hasMore]

\* list() and what it returns
ListCall(clinicId, patientId, options) ==
  /\ last' = ListReturned(clinicId, patientId, options,
                          list(store, clinicId, patientId, options))
  /\ UNCHANGED <<store, issued, pending, won, tomb, probe, clock, rate>>

\* a list() call of a client that keeps no paging session
List(clinicId, patientId, options) ==
  /\ ListCall(clinicId, patientId, options)
  /\ UNCHANGED session

\* history: what the table held at a key when a conditional write failed there:
\* 0 for no item, -1 for a soft-deleted one, else the version of the active note
SeenAt(tbl, pk, sk) ==
  IF ItemsAt(tbl, pk, sk) = {} THEN 0
  ELSE LET it == CHOOSE x \in ItemsAt(tbl, pk, sk) : TRUE IN
       IF it.deletedAt # None THEN -1 ELSE it.version

\* update() up to the answer of its conditional write
UpdateWrite(clinicId, patientId, noteId, studyDate, actor, input) ==
  LET pk == buildPK(clinicId, patientId)
      sk == buildSK(studyDate, noteId)
  IN IF UpdateCondition(store, pk, sk, input.version)
     THEN LET item == CHOOSE it \in ItemsAt(store, pk, sk) : TRUE
              new == UpdatedItem(item, actor.userId, actor.username, input, actor.now)
          IN /\ item.version < MaxVersion
             /\ store' = (store \ {item}) \cup {new}
             /\ won' = won \cup {<<pk, sk, input.version>>}
             /\ last' = [Returned("update", clinicId, patientId, noteId, studyDate,
                                  "ok", <<itemToNote(new)>>)
                           EXCEPT !.expected = input.version, !.input = input]
             /\ UNCHANGED <<issued, pending, tomb, session, probe, clock, rate>>
     ELSE \* ConditionalCheckFailedException: the catch block will re-read
          /\ Cardinality(pending) < MaxInflight
          /\ pending' = pending \cup
               {[clinicId |-> clinicId, patientId |-> patientId, noteId |-> noteId,
                 studyDate |-> studyDate, expected |-> input.version,
                 seen |-> SeenAt(store, pk, sk), fault |-> ""]}
          /\ UNCHANGED <<store, issued, last, won, tomb, session, probe, clock, rate>>

\* (mutation) the catch block answers from what the failed write met, without
\* reading again
UpdateRereadGuess(call) ==
  /\ call \in pending
  /\ pending' = pending \ {call}
  /\ last' = IF call.seen <= 0
             THEN [Returned("update", call.clinicId, call.patientId, call.noteId,
                            call.studyDate, "NotFound", <<>>)
                     EXCEPT !.expected = call.expected, !.seen = call.seen, !.fault = call.fault]
             ELSE [Returned("update", call.clinicId, call.patientId, call.noteId,
                            call.studyDate, "Conflict", <<>>)
                     EXCEPT !.expected = call.expected, !.current = call.seen,
                            !.seen = call.seen, !.fault = call.fault]
  /\ UNCHANGED <<store, issued, won, tomb, session, probe, clock, rate>>

\* the catch block of update(): re-read, then NotFound or Conflict
UpdateReread(call) ==
  LET existing == findById(store, call.clinicId, call.patientId, call.noteId, call.studyDate) IN
  /\ call \in pending
  /\ pending' = pending \ {call}
  /\ last' = IF existing = <<>>
             THEN [Returned("update", call.clinicId, call.patientId, call.noteId,
                            call.studyDate, "NotFound", <<>>)
                     EXCEPT !.expected = call.expected, !.seen = call.seen, !.fault = call.fault]
             ELSE [Returned("update", call.clinicId, call.patientId, call.noteId,
                            call.studyDate, "Conflict", <<>>)
                     EXCEPT !.expected = call.expected, !.current = existing[1].version,
                            !.seen = call.seen, !.fault = call.fault]
  /\ UNCHANGED <<store, issued, won, tomb, session, probe, clock, rate>>

SoftDelete(clinicId, patientId, noteId, studyDate, actor) ==
  LET pk == buildPK(clinicId, patientId)
      sk == buildSK(studyDate, noteId)
  IN IF SoftDeleteCondition(store, pk, sk)
     THEN LET item == CHOOSE it \in ItemsAt(store, pk, sk) : TRUE IN
          /\ store' = (store \ {item}) \cup {SoftDeletedItem(item, actor.userId, actor.now)}
          /\ tomb' = tomb \cup {<<pk, sk>>}
          /\ last' = Returned("softDelete", clinicId, patientId, noteId, studyDate, "ok", <<>>)
          /\ UNCHANGED <<issued, pending, won, session, probe, clock, rate>>
     ELSE /\ last' = Returned("softDelete", clinicId, patientId, noteId, studyDate,
                              "NotFound", <<>>)
          /\ UNCHANGED <<store, issued, pending, won, tomb, session, probe, clock, rate>>

\* (mutation) hardDelete conditioned as softDelete is: only an active note goes
HardDeleteActiveOnly(clinicId, patientId, noteId, studyDate) ==
  LET pk == buildPK(clinicId, patientId)
      sk == buildSK(studyDate, noteId)
  IN /\ store' = IF SoftDeleteCondition(store, pk, sk)
                 THEN store \ ItemsAt(store, pk, sk) ELSE store
     /\ won' = {w \in won : ~(w[1] = pk /\ w[2] = sk)}
     /\ tomb' = tomb \ {<<pk, sk>>}
     /\ last' = Returned("hardDelete", clinicId, patientId, noteId, studyDate,
                         IF SoftDeleteCondition(store, pk, sk) THEN "ok" ELSE "NotFound", <<>>)
     /\ UNCHANGED <<issued, pending, session, probe, clock, rate>>

HardDelete(clinicId, patientId, noteId, studyDate) ==
  LET pk == buildPK(clinicId, patientId)
      sk == buildSK(studyDate, noteId)
  IN /\ store' = store \ ItemsAt(store, pk, sk)
     /\ won' = {w \in won : ~(w[1] = pk /\ w[2] = sk)}
     /\ tomb' = tomb \ {<<pk, sk>>}
     /\ last' = Returned("hardDelete", clinicId, patientId, noteId, studyDate, "ok", <<>>)
     /\ UNCHANGED <<issued, pending, session, probe, clock, rate>>

\* the cursor of a key
CursorOf(pk, sk) == encodeCursor([PK |-> pk, SK |-> sk])

\* strings that are no cursor: JSON null, and an object whose PK is a number
JunkCursors ==
  {Base64UrlEncode(<<"null">>), Base64UrlEncode(<<"{", "q", "PK", "q", ":", "0", "}">>)}

\* list() options without date range and tag
PlainOptions(cursor, limit) ==
  [cursor |-> cursor, limit |-> limit, studyDateFrom |-> None, studyDateTo |-> None,
   tag |-> None]

\* the scope, the creator and the targets of the calls of the main specification
MainScope == [clinicId |-> <<"A">>, patientId |-> <<"y">>]

Creator == CHOOSE a \in Actors : a.userId = <<"u1">>

\* the study date of the notes of the main specification
MainDates == {<<"d1">>}

Editor == CHOOSE a \in Actors : a.userId = <<"u2">>

\* the patch of the main specification: a new title
MainUpdateInputs == {in \in UpdateInputs : in.title # None}

MainCursors ==
  {NoCursor}
  \cup {CursorOf(buildPK(MainScope.clinicId, MainScope.patientId), buildSK(d, IdOf(MaxNotes))) :
          d \in MainDates}

Next ==
  \/ \E in \in {i \in CreateInputs : i.studyDate \in MainDates}, n \in NoteIds :
       Create(MainScope.clinicId, MainScope.patientId, Creator, in, n, MaxNotes)
  \/ \E n \in NoteIds, d \in Dates :
       FindById(MainScope.clinicId, MainScope.patientId, n, d)
  \/ \E n \in NoteIds :
       FindByIdWithoutStudyDate(MainScope.clinicId, MainScope.patientId, n)
  \/ \E c \in MainCursors, l \in 1..MaxLimit :
       List(MainScope.clinicId, MainScope.patientId, PlainOptions(c, l))
  \/ \E n \in NoteIds, d \in MainDates, in \in MainUpdateInputs :
       UpdateWrite(MainScope.clinicId, MainScope.patientId, n, d, Editor, in)
  \/ \E call \in pending :
       UpdateReread(call)
  \/ \E n \in NoteIds, d \in MainDates, a \in Actors :
       SoftDelete(MainScope.clinicId, MainScope.patientId, n, d, a)
  \/ \E n \in NoteIds, d \in MainDates :
       HardDelete(MainScope.clinicId, MainScope.patientId, n, d)

Spec == Init /\ [][Next]_vars

-----------------------------------------------------------------------------
(* Properties of the main specification *)

KeyOf(r) == <<buildPK(r.clinicId, r.patientId), buildSK(r.studyDate, r.noteId)>>

\* the stored items at the key of a call or of a note
StoredAt(r) == {it \in store : <<it.PK, it.SK>> = KeyOf(r)}

ActiveAt(r) == {it \in StoredAt(r) : it.deletedAt = None}

\* this step is an update() whose conditional write succeeded
UpdateSucceeds == last'.op = "update" /\ last'.out = "ok" /\ store' # store

\* this step is the re-read of the update() call c
RereadOf(c) == c \in pending /\ c \notin pending'

\* this step is the failed conditional write of the update() call c
FailedWriteOf(c) == c \notin pending /\ c \in pending'

\* C1: a note has version 1 when create() returns it, and at every moment the
\* stored version of a note is 1 plus the number of update() calls that
\* succeeded on it; no step lowers the version of a stored note or raises it by
\* more than 1, and only a successful update() changes it.
VersionIsOnePlusUpdates ==
  /\ \A it \in store :
       it.version = 1 + Cardinality({w \in won : w[1] = it.PK /\ w[2] = it.SK})
  /\ (last.op = "create" /\ last.out = "ok") =>
       /\ last.notes[1].version = 1
       /\ \A it \in StoredAt(last.notes[1]) : it.version = 1

VersionStep ==
  \A it \in store : \A nw \in store' :
    (nw.PK = it.PK /\ nw.SK = it.SK) =>
      /\ nw.version \in {it.version, it.version + 1}
      /\ nw.version = it.version + 1 <=> (UpdateSucceeds /\ KeyOf(last') = <<it.PK, it.SK>>)

C1_Version == [](VersionIsOnePlusUpdates) /\ [][VersionStep]_vars

\* C1 witness: a note that two successful updates brought to version 3, right
\* after a further update of it failed
C1_Witness ==
  /\ last.op = "update"
  /\ last.out = "Conflict"
  /\ \E it \in StoredAt(last) : it.version = 3 /\ last.current = 3

\* C2: an update() whose expectedVersion differs from the version of the
\* active note it addresses changes nothing in the table, neither at its
\* conditional write nor at its re-read, and, the note being still active at
\* the re-read, it fails with Conflict naming the expected version and, as
\* current, the version stored at that moment.
StaleUpdateStep ==
  /\ \A c \in pending' : FailedWriteOf(c) => store' = store
  /\ \A it \in store :
       (it \notin store' /\ last'.op = "update") => last'.expected = it.version
  /\ \A c \in pending :
       (RereadOf(c) /\ c.seen > 0) =>
         /\ store' = store
         /\ \A it \in ActiveAt(c) :
              /\ last'.op = "update"
              /\ last'.out = "Conflict"
              /\ last'.expected = c.expected
              /\ last'.current = it.version

C2_StaleUpdate == [][StaleUpdateStep]_vars

\* C2 witness: a Conflict returned for an expected version below the stored one
C2_Witness ==
  /\ last.op = "update"
  /\ last.out = "Conflict"
  /\ \E it \in ActiveAt(last) : last.expected < it.version /\ last.current = it.version

\* C3: of the update() calls that carry the same expectedVersion e for the same
\* note, the one whose conditional write finds the note active at version e
\* succeeds and writes version e + 1; no second one succeeds, and each other
\* one, the note being still active at its re-read, fails with Conflict.
RaceStep ==
  /\ UpdateSucceeds =>
       /\ <<KeyOf(last')[1], KeyOf(last')[2], last'.expected>> \notin won
       /\ \A it \in StoredAt(last') : it.version = last'.expected
       /\ last'.notes[1].version = last'.expected + 1
       /\ \A nw \in store' :
            <<nw.PK, nw.SK>> = KeyOf(last') => nw.version = last'.expected + 1
  /\ \A c \in pending' :
       FailedWriteOf(c) => \A it \in ActiveAt(c) : it.version # c.expected
  /\ \A c \in pending :
       (RereadOf(c) /\ <<KeyOf(c)[1], KeyOf(c)[2], c.expected>> \in won) =>
         \A it \in ActiveAt(c) :
           /\ last'.out = "Conflict"
           /\ last'.current > c.expected

C3_Race == [][RaceStep]_vars

\* C3 witness: the loser of a race has its Conflict: another update with the
\* same expected version won, and the note stands one version higher
C3_Witness ==
  /\ last.op = "update"
  /\ last.out = "Conflict"
  /\ <<KeyOf(last)[1], KeyOf(last)[2], last.expected>> \in won
  /\ last.current = last.expected + 1

\* C13: the re-read that follows a failed conditional write of update()
\* happens once, changes nothing, and answers NotFound exactly when the table
\* holds no active note at the key at that moment (none at all, or a
\* soft-deleted one), whatever the failed write had met; otherwise it answers
\* Conflict with the expected version of the call and, as current, the version
\* stored at that moment.
RereadStep ==
  \A c \in pending :
    RereadOf(c) =>
      /\ store' = store
      /\ last'.op = "update"
      /\ last'.expected = c.expected
      /\ last'.out \in {"NotFound", "Conflict"}
      /\ last'.out = "NotFound" <=> ActiveAt(c) = {}
      /\ \A it \in ActiveAt(c) : last'.out = "Conflict" /\ last'.current = it.version

\* no update() answers NotFound or Conflict but through a re-read, and a call
\* that was answered waits for no second re-read
OneReread ==
  /\ (last.op = "update" /\ last.out # "ok") => last.out \in {"NotFound", "Conflict"}
  /\ Cardinality(pending) <= MaxInflight

C13_Reread == [](OneReread) /\ [][RereadStep]_vars

\* C13 witness: NotFound answered to an update() whose write had failed on an
\* active note at another version, the note having been soft-deleted before
\* the re-read
C13_Witness ==
  /\ last.op = "update"
  /\ last.out = "NotFound"
  /\ last.seen > 0
  /\ \E it \in StoredAt(last) : it.deletedAt # None

\* the key of a returned note
NoteKey(n) == <<buildPK(n.clinicId, n.patientId), buildSK(n.studyDate, n.noteId)>>

\* the notes the last call returned, if it was a read
ReadNotes ==
  IF last.op \in {"findById", "findByIdWithoutStudyDate", "list"}
  THEN {last.notes[i] : i \in 1..Len(last.notes)} ELSE {}

\* C4: once softDelete() has succeeded on a note, findById on its key and
\* findByIdWithoutStudyDate on its id return null, no list page holds it, a
\* further softDelete() of it fails with NotFound and changes nothing, and
\* (until a hardDelete() removes it) its item is still in the table with
\* deletedAt set.
SoftDeletedIsHidden ==
  /\ \A k \in tomb : \E it \in store : <<it.PK, it.SK>> = k /\ it.deletedAt # None
  /\ \A n \in ReadNotes : NoteKey(n) \notin tomb /\ n.deletedAt = None
  /\ (last.op = "findById" /\ KeyOf(last) \in tomb) => last.notes = <<>>
  /\ (last.op = "findByIdWithoutStudyDate"
        /\ \A it \in store : (it.PK = buildPK(last.clinicId, last.patientId)
                                /\ it.noteId = last.noteId) => <<it.PK, it.SK>> \in tomb)
       => last.notes = <<>>

SecondSoftDeleteStep ==
  (last'.op = "softDelete" /\ last' # last /\ KeyOf(last') \in tomb) =>
    /\ last'.out = "NotFound"
    /\ store' = store

C4_SoftDelete == [](SoftDeletedIsHidden) /\ [][SecondSoftDeleteStep]_vars

\* C4 witness: a list page returned while a soft-deleted note is in the
\* caller's partition, beside an active one
C4_Witness ==
  /\ last.op = "list"
  /\ Len(last.notes) = 1
  /\ \E k \in tomb : k[1] = buildPK(last.clinicId, last.patientId)

\* C14: softDelete() of an active note sets deletedAt and deletedBy on its
\* item, leaves every other attribute of it (version, title, content, tags,
\* attachments, updatedAt, ...) and every other item as they were, and removes
\* nothing; softDelete() of a key with no item, or with an already deleted
\* one, fails with NotFound and leaves the table as it was.
SoftDeleteFrameStep ==
  (last'.op = "softDelete" /\ (last' # last \/ store' # store)) =>
    IF ActiveAt(last') # {}
    THEN /\ last'.out = "ok"
         /\ \A old \in ActiveAt(last') :
              \E new \in store' :
                /\ new.deletedAt # None
                /\ new.deletedBy # None
                /\ [new EXCEPT !.deletedAt = None, !.deletedBy = None] = old
                /\ store' \ {new} = store \ {old}
    ELSE /\ last'.out = "NotFound"
         /\ store' = store

C14_SoftDeleteFrame == [][SoftDeleteFrameStep]_vars

\* C14 witness: softDelete() has succeeded on a note that had been updated,
\* and the item is in the table, deleted, at the version the update left
C14_Witness ==
  /\ last.op = "softDelete"
  /\ last.out = "ok"
  /\ \E it \in StoredAt(last) :
       it.deletedAt # None /\ it.deletedBy # None /\ it.version = 2

\* C15: create() writes its item only where the table holds nothing at the
\* generated (PK, SK): a create() whose generated noteId meets a stored item,
\* active or soft-deleted, fails and leaves the table as it was; a create()
\* that succeeds adds one item at a key that held none; no create() removes or
\* changes a stored item.
CreateStep ==
  (last'.op = "create" /\ (last' # last \/ store' # store)) =>
    /\ \A it \in store : it \in store'
    /\ IF StoredAt(last') # {}
       THEN last'.out # "ok" /\ store' = store
       ELSE /\ last'.out = "ok"
            /\ \E new \in store' :
                 /\ <<new.PK, new.SK>> = KeyOf(last')
                 /\ new.version = 1
                 /\ store' = store \cup {new}

C15_CreateNeverOverwrites == [][CreateStep]_vars

\* C15 witness: a create() has failed on a generated id that met a stored
\* note, and that note is in the table at the version an update had left
C15_Witness ==
  /\ last.op = "create"
  /\ last.out = "ConditionalCheckFailedException"
  /\ \E it \in StoredAt(last) : it.version = 2

\* C5: an update() addressed to a soft-deleted note changes nothing in the
\* table and fails with NotFound, whatever its expectedVersion.
UpdateOfDeletedStep ==
  /\ \A it \in store :
       (it.deletedAt # None /\ last'.op = "update") => it \in store'
  /\ \A c \in pending' :
       (FailedWriteOf(c) /\ c.seen = -1) => store' = store
  /\ \A c \in pending :
       (RereadOf(c) /\ c.seen = -1) =>
         /\ last'.op = "update"
         /\ last'.out = "NotFound"
         /\ store' = store

\* an update() never goes unanswered on a soft-deleted note: its conditional
\* write fails there even when expectedVersion is the stored version
DeletedNeverUpdated ==
  (last.op = "update" /\ last.out = "ok") => KeyOf(last) \notin tomb

C5_UpdateOfDeleted == [](DeletedNeverUpdated) /\ [][UpdateOfDeletedStep]_vars

\* C5 witness: NotFound returned to an update() that named the very version
\* the soft-deleted note has
C5_Witness ==
  /\ last.op = "update"
  /\ last.out = "NotFound"
  /\ \E it \in StoredAt(last) : it.deletedAt # None /\ it.version = last.expected

-----------------------------------------------------------------------------
(* Tenancy specification: callers of several scopes on one table.  Notes   *)
(* are created, read, listed with cursors of every scope, soft-deleted and *)
(* hard-deleted; update() is left to the main specification, as it changes *)
(* no key and no tenant attribute.                                         *)

\* the cursors a caller may pass: none, strings that are no cursor, and for
\* every scope the well-formed cursor of a key of its partition, above the
\* keys of the stored notes
TenantCursors ==
  {NoCursor} \cup JunkCursors
  \cup {CursorOf(buildPK(s.clinicId, s.patientId), buildSK(<<"d2">>, IdOf(MaxNotes))) :
          s \in Scopes}

NextTenant ==
  \/ \E s \in Scopes, in \in {i \in CreateInputs : i.studyDate \in MainDates}, n \in NoteIds :
       Create(s.clinicId, s.patientId, Creator, in, n, MaxNotes)
  \/ \E s \in Scopes, n \in NoteIds, d \in MainDates :
       FindById(s.clinicId, s.patientId, n, d)
  \/ \E s \in Scopes, n \in NoteIds :
       FindByIdWithoutStudyDate(s.clinicId, s.patientId, n)
  \/ \E s \in Scopes, c \in TenantCursors :
       List(s.clinicId, s.patientId, PlainOptions(c, MaxNotes))
  \/ \E s \in Scopes, n \in NoteIds, d \in MainDates :
       SoftDelete(s.clinicId, s.patientId, n, d, Creator)
  \/ \E s \in Scopes, n \in NoteIds, d \in MainDates :
       HardDelete(s.clinicId, s.patientId, n, d)

SpecTenant == Init /\ [][NextTenant]_vars

\* C6: no note that findById, findByIdWithoutStudyDate or list() returns to a
\* caller scoped to one clinicId was created under another clinicId.
C6_NoForeignClinic ==
  \A n \in ReadNotes : n.clinicId = last.clinicId

\* the partition of the caller of the last call
CallerPartition == buildPK(last.clinicId, last.patientId)

\* the key a well-formed cursor carries
CursorKey == decodeCursor(last.cursor)

\* C7: whatever cursor list() is given (none, a string that is no cursor, the
\* cursor of a key of the caller's partition or of another tenant's), every
\* note it returns is the note of an item stored in the partition of the
\* caller's (clinicId, patientId).
C7_CursorKeepsPartition ==
  last.op = "list" =>
    \A i \in 1..Len(last.notes) :
      \E it \in store : it.PK = CallerPartition /\ itemToNote(it) = last.notes[i]

\* C7 witness: list() was given the well-formed cursor of a key of another
\* tenant's partition, which holds a note beyond that key in descending order
C7_Witness ==
  /\ last.op = "list"
  /\ last.cursor # NoCursor
  /\ CursorKey # NoKey
  /\ CursorKey.PK # CallerPartition
  /\ \E it \in store : it.PK = CursorKey.PK /\ StrLess(it.SK, CursorKey.SK)
                         /\ it.deletedAt = None

-----------------------------------------------------------------------------
(* Paging specification: one client pages through the notes of a patient   *)
(* with a fixed limit, passing each nextCursor to its next call; notes are *)
(* created and soft-deleted only while no paging session is under way.     *)

\* the patient whose notes are paged
PagingScope == MainScope

\* the keys of the notes of a page, in the order returned
PageKeys(notes) == [i \in 1..Len(notes) |-> NoteKey(notes[i])]

\* what the client keeps of a page
PageOf(r) == [keys |-> PageKeys(r.notes), hasMore |-> r.hasMore, nextCursor |-> r.nextCursor]

\* the first call of a session: no cursor
FirstPage(limit) ==
  /\ session.state = "idle"
  /\ ListCall(PagingScope.clinicId, PagingScope.patientId, PlainOptions(NoCursor, limit))
  /\ session' = [state |-> IF last'.hasMore THEN "open" ELSE "done",
                 limit |-> limit,
                 pages |-> <<PageOf(last')>>]

\* a further call: the nextCursor of the page before
NextPage ==
  /\ session.state = "open"
  /\ ListCall(PagingScope.clinicId, PagingScope.patientId,
              PlainOptions(session.pages[Len(session.pages)].nextCursor, session.limit))
  /\ session' = [session EXCEPT !.state = IF last'.hasMore THEN "open" ELSE "done",
                                !.pages = Append(@, PageOf(last'))]

\* the client is done with its pages
ClosePaging ==
  /\ session.state = "done"
  /\ session' = NoSession
  /\ UNCHANGED <<store, issued, pending, last, won, tomb, probe, clock, rate>>

NextPaging ==
  \/ /\ session.state = "idle"
     /\ \E in \in CreateInputs, n \in {IdOf(k) : k \in 1..MaxPagingNotes} :
          Create(PagingScope.clinicId, PagingScope.patientId, Creator, in, n, MaxPagingNotes)
  \/ /\ session.state = "idle"
     /\ \E n \in {IdOf(k) : k \in 1..MaxPagingNotes}, d \in Dates :
          SoftDelete(PagingScope.clinicId, PagingScope.patientId, n, d, Creator)
  \/ \E n \in {IdOf(k) : k \in 1..MaxPagingNotes} :
       FindByIdWithoutStudyDate(PagingScope.clinicId, PagingScope.patientId, n)
  \/ \E l \in 1..MaxPagingLimit : FirstPage(l)
  \/ NextPage
  \/ ClosePaging

SpecPaging == Init /\ [][NextPaging]_vars

\* the items of the paged partition
PagedItems == {it \in store : it.PK = buildPK(PagingScope.clinicId, PagingScope.patientId)}

RECURSIVE Flatten(_)
\* the keys of all pages, in the order returned
Flatten(pages) ==
  IF pages = <<>> THEN <<>> ELSE pages[1].keys \o Flatten(Tail(pages))

FindTargets ==
  {it \in store : /\ it.PK = buildPK(last.clinicId, last.patientId)
                  /\ StartsWith(it.SK, <<"NOTE", "#">>)
                  /\ it.noteId = last.noteId
                  /\ it.deletedAt = None}

-----------------------------------------------------------------------------
(* Key specification: the key builders applied to two tuples of            *)
(* identifiers.                                                            *)

\* clinicId and patientId values: a clinicId is whatever the token carries and
\* a patientId any string of 1 to 100 characters, so either may hold the
\* delimiter and the word PATIENT
KeyIds ==
  {<<"A">>, <<"x">>, <<"y">>, <<"A", "#", "x">>,
   <<"A", "#", "PATIENT", "#", "x">>, <<"x", "#", "PATIENT", "#", "y">>}

\* (clinicId, patientId, studyDate, noteId); a studyDate is a YYYY-MM-DD date
\* and a noteId a uuid
KeyTuples ==
  {[clinicId |-> c, patientId |-> p, studyDate |-> d, noteId |-> n] :
     c \in KeyIds, p \in KeyIds, d \in Dates, n \in NoteIds}

InitKeys ==
  /\ store = {}
  /\ issued = 0
  /\ pending = {}
  /\ last = Returned("init", <<>>, <<>>, <<>>, <<>>, "", <<>>)
  /\ won = {}
  /\ tomb = {}
  /\ session = NoSession
  /\ clock = 0
  /\ rate = NoRate
  /\ probe \in {[built |-> FALSE, a |-> t, b |-> u, keyA |-> <<>>, keyB |-> <<>>] :
                  t \in KeyTuples, u \in KeyTuples}

\* buildPK and buildSK on both tuples
BuildKeys ==
  /\ ~probe.built
  /\ probe' = [probe EXCEPT
                 !.built = TRUE,
                 !.keyA = <<buildPK(probe.a.clinicId, probe.a.patientId),
                            buildSK(probe.a.studyDate, probe.a.noteId)>>,
                 !.keyB = <<buildPK(probe.b.clinicId, probe.b.patientId),
                            buildSK(probe.b.studyDate, probe.b.noteId)>>]
  /\ UNCHANGED <<store, issued, pending, last, won, tomb, session, clock, rate>>

NextKeys == BuildKeys

SpecKeys == InitKeys /\ [][NextKeys]_vars

\* C8: two tuples with the same partition key have the same clinicId and the
\* same patientId, and two tuples with the same partition key and the same
\* sort key are the same tuple, whatever the identifiers hold, the delimiter
\* included.
C8_KeysInjective ==
  probe.built =>
    /\ probe.keyA[1] = probe.keyB[1] =>
         /\ probe.a.clinicId = probe.b.clinicId
         /\ probe.a.patientId = probe.b.patientId
    /\ probe.keyA = probe.keyB => probe.a = probe.b

-----------------------------------------------------------------------------
(* Date-range specification: the notes of one patient on three study       *)
(* dates, beside the patient's own METADATA record in the same partition,  *)
(* listed with every choice of studyDateFrom and studyDateTo.  Soft-       *)
(* deleted notes, which the filter of list() hides, are left to the main   *)
(* and the paging specifications.                                          *)

RangeDates == {<<"d1">>, <<"d2">>, <<"d3">>}

\* the record the patients repository puts for a patient: it shares the
\* partition of the patient's notes
PatientItem(clinicId, patientId, now) ==
  [PK |-> buildPK(clinicId, patientId),
   SK |-> <<"METADATA">>,
   noteId |-> None,
   clinicId |-> clinicId,
   patientId |-> patientId,
   studyDate |-> None,
   title |-> None,
   content |-> None,
   noteType |-> None,
   tags |-> NoTags,
   attachments |-> None,
   createdAt |-> now,
   updatedAt |-> now,
   createdBy |-> None,
   createdByName |-> None,
   updatedBy |-> None,
   updatedByName |-> None,
   version |-> 0,
   deletedAt |-> None,
   deletedBy |-> None,
   entityType |-> <<"PATIENT">>]

\* create() of the patients repository
CreatePatient(clinicId, patientId, actor) ==
  LET item == PatientItem(clinicId, patientId, actor.now) IN
  /\ IF CreateCondition(store, item)
     THEN /\ store' = Put(store, item)
          /\ last' = Returned("createPatient", clinicId, patientId, <<>>, <<>>, "ok", <<>>)
     ELSE /\ store' = store
          /\ last' = Returned("createPatient", clinicId, patientId, <<>>, <<>>,
                              "ConditionalCheckFailedException", <<>>)
  /\ UNCHANGED <<issued, pending, won, tomb, session, probe, clock, rate>>

\* list() options with a date range
RangeOptions(cursor, limit, studyDateFrom, studyDateTo) ==
  [cursor |-> cursor, limit |-> limit, studyDateFrom |-> studyDateFrom,
   studyDateTo |-> studyDateTo, tag |-> None]

\* no cursor, or the cursor of a key in the middle of the dates
RangeCursors ==
  {NoCursor,
   CursorOf(buildPK(MainScope.clinicId, MainScope.patientId), buildSK(<<"d2">>, IdOf(1)))}

NextRange ==
  \/ \E in \in {[i EXCEPT !.studyDate = d] : i \in CreateInputs, d \in RangeDates},
        n \in {IdOf(k) : k \in 1..MaxRangeNotes} :
       Create(MainScope.clinicId, MainScope.patientId, Creator, in, n, MaxRangeNotes)
  \/ CreatePatient(MainScope.clinicId, MainScope.patientId, Creator)
  \/ \E c \in RangeCursors, l \in 1..MaxRangeLimit,
        f \in RangeDates \cup {None}, t \in RangeDates \cup {None} :
       List(MainScope.clinicId, MainScope.patientId, RangeOptions(c, l, f, t))

SpecRange == Init /\ [][NextRange]_vars

\* studyDateFrom <= d <= studyDateTo, a bound that is None being open
InRange(d, studyDateFrom, studyDateTo) ==
  /\ studyDateFrom # None => StrLeq(studyDateFrom, d)
  /\ studyDateTo # None => StrLeq(d, studyDateTo)

\* the stored notes of the caller's partition in the range of the last list()
NotesInRange ==
  {it \in store : /\ it.PK = buildPK(last.clinicId, last.patientId)
                  /\ it.entityType = <<"NOTE">>
                  /\ InRange(it.studyDate, last.studyDateFrom, last.studyDateTo)}

\* C11: every note a list() page holds is a stored note whose studyDate lies
\* in [studyDateFrom, studyDateTo] (either bound may be left out, both are
\* inclusive); the sort keys of the page are strictly descending, hence no
\* note of the page has a later studyDate than a note before it; and a call
\* without cursor whose query limit exceeds the number of notes in the range
\* returns every active note of the range, those on the bounds included.
C11_DateRange ==
  (last.op = "list" /\ last.out = "ok") =>
    /\ \A i \in 1..Len(last.notes) :
         /\ last.notes[i].noteId # None
         /\ InRange(last.notes[i].studyDate, last.studyDateFrom, last.studyDateTo)
    /\ \A i, j \in 1..Len(last.notes) :
         i < j => /\ StrLess(NoteKey(last.notes[j])[2], NoteKey(last.notes[i])[2])
                  /\ StrLeq(last.notes[j].studyDate, last.notes[i].studyDate)
    /\ (last.cursor = NoCursor /\ Cardinality(NotesInRange) <= last.limit) =>
         {NoteKey(last.notes[i]) : i \in 1..Len(last.notes)}
           = {<<it.PK, it.SK>> : it \in {x \in NotesInRange : x.deletedAt = None}}

\* C11 witness: a page of two notes, one on each bound of the range, while the
\* partition holds a note outside the range and the patient's record
C11_Witness ==
  /\ last.op = "list"
  /\ last.studyDateFrom = <<"d2">>
  /\ last.studyDateTo = <<"d3">>
  /\ Len(last.notes) = 2
  /\ last.notes[1].studyDate = <<"d3">>
  /\ last.notes[2].studyDate = <<"d2">>
  /\ \E it \in store : it.studyDate = <<"d1">> /\ it.deletedAt = None
  /\ \E it \in store : it.SK = <<"METADATA">>

-----------------------------------------------------------------------------
(* Patch specification: one note created with every field set, updated     *)
(* with inputs that name any subset of title, content, noteType, tags and  *)
(* attachments.                                                            *)

\* a note with noteType, tags and attachments
PatchCreateInputs ==
  {[studyDate |-> <<"d1">>, title |-> <<"T1">>, content |-> <<"C1">>,
    noteType |-> <<"initial">>, tags |-> <<<<"t0">>>>, attachments |-> <<"a0">>]}

\* every subset of the fields, at every expected version
PatchUpdateInputs ==
  {[title |-> t, content |-> c, noteType |-> y, tags |-> g, attachments |-> a, version |-> v] :
     t \in {None, <<"T2">>}, c \in {None, <<"C2">>}, y \in {None, <<"followup">>},
     g \in {NoTags, <<<<"tg">>>>}, a \in {None, <<"a1">>}, v \in 1..MaxVersion}

NextPatch ==
  \/ \E in \in PatchCreateInputs :
       Create(MainScope.clinicId, MainScope.patientId, Creator, in, IdOf(1), 1)
  \/ \E in \in PatchUpdateInputs :
       UpdateWrite(MainScope.clinicId, MainScope.patientId, IdOf(1), <<"d1">>, Editor, in)
  \/ \E call \in pending :
       UpdateReread(call)

SpecPatch == Init /\ [][NextPatch]_vars

\* C12: in a step in which update() succeeds, each of title, content,
\* noteType, tags and attachments that the input names holds the input's value
\* in the stored note afterwards, and each that the input leaves out holds the
\* value it had before.
PartialUpdateStep ==
  UpdateSucceeds =>
    \A it \in StoredAt(last') : \A nw \in store' :
      <<nw.PK, nw.SK>> = KeyOf(last') =>
        LET in == last'.input IN
        /\ nw.title = IF in.title # None THEN in.title ELSE it.title
        /\ nw.content = IF in.content # None THEN in.content ELSE it.content
        /\ nw.noteType = IF in.noteType # None THEN in.noteType ELSE it.noteType
        /\ nw.tags = IF in.tags # NoTags THEN in.tags ELSE it.tags
        /\ nw.attachments = IF in.attachments # None THEN in.attachments ELSE it.attachments

C12_PartialUpdate == [][PartialUpdateStep]_vars

-----------------------------------------------------------------------------
(* Life of a note: create(), update() in its two steps and softDelete(), by  *)
(* any caller in any order, on the notes of one patient.  hardDelete(), the  *)
(* physical removal, is left out: it is no part of the life cycle and no     *)
(* handler calls it.                                                          *)

NextLife ==
  \/ \E in \in {i \in CreateInputs : i.studyDate \in MainDates}, n \in NoteIds :
       Create(MainScope.clinicId, MainScope.patientId, Creator, in, n, MaxNotes)
  \/ \E n \in NoteIds, d \in MainDates, in \in MainUpdateInputs :
       UpdateWrite(MainScope.clinicId, MainScope.patientId, n, d, Editor, in)
  \/ \E call \in pending :
       UpdateReread(call)
  \/ \E n \in NoteIds, d \in MainDates, a \in Actors :
       SoftDelete(MainScope.clinicId, MainScope.patientId, n, d, a)

SpecLife == Init /\ [][NextLife]_vars

\* C16: under create(), update() and softDelete() in any order and
\* interleaving, a stored note stays stored; an active one is next either as
\* it was, or active at the next version, or deleted with its other
\* attributes as they were; and a deleted one is next exactly as it was: it
\* is never active again, and neither deletedAt, deletedBy nor any other
\* attribute of it changes.
LifeStep ==
  \A it \in store :
    IF it.deletedAt # None
    THEN it \in store'
    ELSE \E nx \in store' :
           /\ <<nx.PK, nx.SK>> = <<it.PK, it.SK>>
           /\ \/ nx = it
              \/ nx.deletedAt = None /\ nx.version = it.version + 1
              \/ nx.deletedAt # None
                   /\ [nx EXCEPT !.deletedAt = None, !.deletedBy = None] = it

\* one item at most is stored at a key
OneItemPerKey ==
  \A a \in store, b \in store : <<a.PK, a.SK>> = <<b.PK, b.SK>> => a = b

C16_LifeCycle == [](OneItemPerKey) /\ [][LifeStep]_vars

\* C16 witness: a create() whose generated id met a soft-deleted note has
\* failed, and the note is in the table, still deleted
C16_Witness ==
  /\ last.op = "create"
  /\ last.out # "ok"
  /\ \E it \in StoredAt(last) : it.deletedAt # None /\ it.version = 2

-----------------------------------------------------------------------------
(* The cursor codec on its own: keys are encoded and decoded again, one     *)
(* character of an encoded cursor is replaced by another, and strings that  *)
(* no encoder made are decoded.                                             *)

\* the symbols key tails are made of: two plain ones, the double quote and
\* the backslash
TailSyms == {"A", "B", "q", "\\"}

MaxTail == 2

Tails == UNION {[1..n -> TailSyms] : n \in 0..MaxTail}

\* key pairs of the two families: any tail after CLINIC# and after NOTE#, and
\* the keys of the key scheme
CursorKeys ==
  {[PK |-> <<"CLINIC", "#">> \o a, SK |-> <<"NOTE", "#">> \o b] : a \in Tails, b \in Tails}
  \cup {[PK |-> buildPK(sc.clinicId, sc.patientId), SK |-> buildSK(d, n)] :
          sc \in Scopes, d \in Dates, n \in NoteIds}

\* the characters a character of a cursor is replaced by
AlterChars ==
  {<<"b64", c>> : c \in TailSyms \cup {"{", "}", ":", ",", "#", "0", "PK", "NOTE"}}

MaxJunkLen == 2

\* strings of cursor characters that no encoder made
ShortCursors == UNION {[1..n -> AlterChars] : n \in 1..MaxJunkLen}

\* the arguments of the codec: a key pair to encode, or a string to decode
CodecInputs ==
  {[op |-> "key", key |-> k, cursor |-> NoCursor, decoded |-> NoKey] : k \in CursorKeys}
  \cup {[op |-> "string", key |-> NoKey, cursor |-> c, decoded |-> NoKey] :
          c \in ShortCursors \cup JunkCursors}

InitCursor ==
  /\ store = {}
  /\ issued = 0
  /\ pending = {}
  /\ last = Returned("init", <<>>, <<>>, <<>>, <<>>, "", <<>>)
  /\ won = {}
  /\ tomb = {}
  /\ session = NoSession
  /\ clock = 0
  /\ rate = NoRate
  /\ probe \in CodecInputs

\* decodeCursor(encodeCursor(k))
EncodeDecode ==
  /\ probe.op = "key"
  /\ probe' = [op |-> "encode", key |-> probe.key, cursor |-> encodeCursor(probe.key),
               decoded |-> decodeCursor(encodeCursor(probe.key))]
  /\ UNCHANGED <<store, issued, pending, last, won, tomb, session, clock, rate>>

\* decodeCursor of an encoded cursor whose i-th character was replaced by ch
Tamper(i, ch) ==
  /\ probe.op = "encode"
  /\ i \in 1..Len(probe.cursor)
  /\ ch # probe.cursor[i]
  /\ probe' = [op |-> "tamper", key |-> probe.key,
               cursor |-> [probe.cursor EXCEPT ![i] = ch],
               decoded |-> decodeCursor([probe.cursor EXCEPT ![i] = ch])]
  /\ UNCHANGED <<store, issued, pending, last, won, tomb, session, clock, rate>>

\* decodeCursor of any string
Decode ==
  /\ probe.op = "string"
  /\ probe' = [probe EXCEPT !.op = "decode", !.decoded = decodeCursor(probe.cursor)]
  /\ UNCHANGED <<store, issued, pending, last, won, tomb, session, clock, rate>>

NextCursor ==
  \/ EncodeDecode
  \/ \E i \in 1..(2 * MaxTail + 20), ch \in AlterChars : Tamper(i, ch)
  \/ Decode

SpecCursor == InitCursor /\ [][NextCursor]_vars

\* C17: the cursor of a key pair whose PK starts with CLINIC# and whose SK
\* starts with NOTE# decodes to that key pair.
C17_RoundTrip == probe.op = "encode" => probe.decoded = probe.key

\* C17 witness: a key pair with a double quote and a backslash in its sort
\* key has been encoded and decoded
C17_Witness ==
  /\ probe.op = "encode"
  /\ probe.key.SK = <<"NOTE", "#", "q", "\\">>
  /\ probe.decoded = probe.key

\* C18: decodeCursor answers every string with a key pair or with undefined,
\* and answers undefined to every string that differs in one character from
\* the cursor of a key pair.
C18_TamperIsInvalid ==
  /\ probe.decoded # NoKey =>
       StartsWith(probe.decoded.PK, <<"CLINIC", "#">>)
         /\ StartsWith(probe.decoded.SK, <<"NOTE", "#">>)
  /\ probe.op = "tamper" => probe.decoded = NoKey

-----------------------------------------------------------------------------
(* Cursors that are not cursors of notes: list() is called with them on the *)
(* notes of one patient, and decodeCursor is applied to them.               *)

MaxCursorLimit == 2

MainPK == buildPK(MainScope.clinicId, MainScope.patientId)

\* strings a caller may pass as cursor: JSON that is no object, members
\* missing or of another type, keys of other families (a patient's METADATA
\* record, a prefix lacking its delimiter), text that is no JSON, a cursor cut
\* short; and the cursors of two notes
OddCursors ==
  JunkCursors
  \cup {Base64UrlEncode(<<"{">> \o JsonQuote(<<"PK">>) \o <<":">> \o JsonQuote(MainPK) \o <<"}">>),
        Base64UrlEncode(<<"{">> \o JsonQuote(<<"SK">>) \o <<":">>
                          \o JsonQuote(buildSK(<<"d1">>, IdOf(1))) \o <<"}">>),
        CursorOf(MainPK, <<"METADATA">>),
        CursorOf(MainPK, <<"NOTE", "d1">>),
        CursorOf(<<"PATIENT", "#">> \o MainScope.patientId, buildSK(<<"d1">>, IdOf(1))),
        CursorOf(<<"CLINIC", "A">>, buildSK(<<"d1">>, IdOf(1))),
        Base64UrlEncode(<<"A", "B">>),
        SubSeq(CursorOf(MainPK, buildSK(<<"d1">>, IdOf(1))), 1, 8)}
  \cup {CursorOf(MainPK, buildSK(d, IdOf(1))) : d \in Dates}

InitOdd ==
  /\ store = {}
  /\ issued = 0
  /\ pending = {}
  /\ last = Returned("init", <<>>, <<>>, <<>>, <<>>, "", <<>>)
  /\ won = {}
  /\ tomb = {}
  /\ session = NoSession
  /\ clock = 0
  /\ rate = NoRate
  /\ probe \in {[op |-> "string", key |-> NoKey, cursor |-> c, decoded |-> NoKey] :
                  c \in OddCursors}

NextOdd ==
  \/ \E in \in CreateInputs, n \in NoteIds :
       Create(MainScope.clinicId, MainScope.patientId, Creator, in, n, MaxNotes)
  \/ \E c \in {NoCursor, probe.cursor}, l \in 1..MaxCursorLimit :
       List(MainScope.clinicId, MainScope.patientId, PlainOptions(c, l))
  \/ Decode

SpecOdd == InitOdd /\ [][NextOdd]_vars

\* the options a returned list() call was made with
OptionsOf(r) ==
  [cursor |-> r.cursor, limit |-> r.limit, studyDateFrom |-> r.studyDateFrom,
   studyDateTo |-> r.studyDateTo, tag |-> r.tag]

\* C19: decodeCursor returns a key pair only for a string whose decoded PK
\* starts with CLINIC# and whose decoded SK starts with NOTE#; and a list()
\* call given a cursor for which decodeCursor returns undefined returns what
\* the same call without a cursor returns: the first page, and no error.
C19_InvalidCursor ==
  /\ (probe.op = "decode" /\ probe.decoded # NoKey) =>
       /\ StartsWith(probe.decoded.PK, <<"CLINIC", "#">>)
       /\ StartsWith(probe.decoded.SK, <<"NOTE", "#">>)
  /\ (last.op = "list" /\ last.cursor # NoCursor /\ decodeCursor(last.cursor) = NoKey) =>
       /\ last.out = "ok"
       /\ last = ListReturned(last.clinicId, last.patientId, OptionsOf(last),
                              list(store, last.clinicId, last.patientId,
                                   [OptionsOf(last) EXCEPT !.cursor = NoCursor]))

\* C19 witness: list() was given the cursor of the patient's METADATA key,
\* which decodeCursor has refused, and has returned a first page of one
\* note with more to come
C19_Witness ==
  /\ probe.op = "decode"
  /\ probe.decoded = NoKey
  /\ last.op = "list"
  /\ last.cursor = CursorOf(MainPK, <<"METADATA">>)
  /\ last.cursor = probe.cursor
  /\ Len(last.notes) = 1
  /\ last.hasMore

-----------------------------------------------------------------------------
(* The rate limiter.  Its counters are items of the table, one per          *)
(* (policy, identifier, window); incrementRateLimit reads the clock, builds *)
(* the key of the window, and adds one to the counter in one atomic write.  *)
(* Calls overlap, and the clock moves on between the reading of the clock   *)
(* and the write.  The table answers every request.                         *)

MaxClock == 4

MaxRateInflight == 2

MaxIncrements == 5

\* policies shaped as those of RATE_LIMITS, with small numbers
RateConfigs ==
  {[name |-> <<"login">>, maxRequests |-> 2, windowSeconds |-> 2],
   [name |-> <<"read">>, maxRequests |-> 1, windowSeconds |-> 3]}

\* who is limited: a clinic, or an address
RateIdentifiers == {<<"A">>, <<"IP", "#", "x">>}

\* (mutation) a key without the name of the policy
buildRateLimitPKOfIdentifier(identifier, configName) ==
  <<"RATELIMIT", "#">> \o identifier

buildRateLimitPK(identifier, configName) ==
  <<"RATELIMIT", "#">> \o configName \o <<"#">> \o identifier

\* Math.floor(Date.now() / 1000 / windowSeconds) * windowSeconds
WindowStart(now, windowSeconds) == (now \div windowSeconds) * windowSeconds

buildRateLimitSK(now, windowSeconds) == <<"WINDOW", "#", WindowStart(now, windowSeconds)>>

\* if_not_exists(#count, :zero) at a key
RateCount(tbl, pk, sk) ==
  IF ItemsAt(tbl, pk, sk) = {} THEN 0
  ELSE (CHOOSE it \in ItemsAt(tbl, pk, sk) : TRUE).count

\* the table after SET #count = if_not_exists(#count, :zero) + :inc, #ttl = :ttl
RateIncremented(tbl, pk, sk, ttl) ==
  (tbl \ ItemsAt(tbl, pk, sk))
    \cup {[PK |-> pk, SK |-> sk, count |-> RateCount(tbl, pk, sk) + 1, ttl |-> ttl]}

\* (mutation) the comparison checkRateLimit makes
RateAllowedBelow(current, config) == current < config.maxRequests

\* allowed: current <= config.maxRequests
RateAllowed(current, config) == current <= config.maxRequests

\* (mutation) retryAfter without Math.max(1, ...)
RateLimitResultNoFloor(call, current, now) ==
  [op |-> "increment", error |-> FALSE, at |-> now,
   identifier |-> call.identifier, name |-> call.config.name, window |-> call.window,
   before |-> call.before,
   allowed |-> RateAllowed(current, call.config), current |-> current,
   limit |-> call.config.maxRequests,
   retryAfter |-> call.window + call.config.windowSeconds - now]

\* the RateLimitResult of a call, from the count its write returned
RateLimitResult(call, current, now) ==
  [op |-> "increment", error |-> FALSE, at |-> now,
   identifier |-> call.identifier, name |-> call.config.name, window |-> call.window,
   before |-> call.before,
   allowed |-> RateAllowed(current, call.config), current |-> current,
   limit |-> call.config.maxRequests,
   retryAfter |-> IF call.window + call.config.windowSeconds - now > 1
                  THEN call.window + call.config.windowSeconds - now ELSE 1]

\* history: the Increments served so far for an identifier under a policy in
\* a window
ServedIn(log, identifier, name, window) ==
  {e \in log : e[1] = identifier /\ e[2] = name /\ e[3] = window}

\* the calls under way for an identifier under a policy in a window
UnderWayIn(identifier, name, window) ==
  {c \in rate.inflight :
     c.identifier = identifier /\ c.config.name = name /\ c.window = window}

\* enforceRateLimit up to the write of incrementRateLimit: the clock is read
\* and the key built
IncrementStart(identifier, config, slot) ==
  /\ Cardinality(rate.inflight) < MaxRateInflight
  /\ Cardinality(rate.log) + Cardinality(rate.inflight) < MaxIncrements
  /\ \A c \in rate.inflight : c.slot # slot
  /\ Cardinality(ServedIn(rate.log, identifier, config.name,
                           WindowStart(clock, config.windowSeconds)))
       + Cardinality(UnderWayIn(identifier, config.name,
                                WindowStart(clock, config.windowSeconds)))
         <= config.maxRequests
  /\ rate' = [rate EXCEPT !.inflight = @ \cup
                {[slot |-> slot, identifier |-> identifier, config |-> config,
                  pk |-> buildRateLimitPK(identifier, config.name),
                  sk |-> buildRateLimitSK(clock, config.windowSeconds),
                  window |-> WindowStart(clock, config.windowSeconds),
                  before |-> Cardinality(ServedIn(rate.log, identifier, config.name,
                                                  WindowStart(clock, config.windowSeconds))),
                  ttl |-> WindowStart(clock, config.windowSeconds)
                            + config.windowSeconds + 60]}]
  /\ UNCHANGED <<store, issued, pending, last, won, tomb, session, probe, clock>>

\* enforceRateLimit from the result of incrementRateLimit on
EnforceOutcome(result) ==
  IF ~result.allowed
  THEN [out |-> "TooManyRequestsError", retryAfter |-> result.retryAfter]
  ELSE [out |-> "ok", retryAfter |-> 0]

\* history: what a call was answered, beside the calls served
Answered(call, current) ==
  [inflight |-> rate.inflight \ {call},
   result |-> RateLimitResult(call, current, clock),
   enforced |-> EnforceOutcome(RateLimitResult(call, current, clock)),
   log |-> rate.log \cup
             {<<call.identifier, call.config.name, call.window,
                Cardinality(ServedIn(rate.log, call.identifier,
                                     call.config.name, call.window)) + 1>>},
   returned |-> rate.returned \cup
                  {<<call.identifier, call.config.name, call.window, current,
                     RateAllowed(current, call.config)>>},
   faults |-> rate.faults]

\* (mutation) the counter is read when the clock is, and written back plus one
IncrementWriteStale(call) ==
  /\ call \in rate.inflight
  /\ store' = (store \ ItemsAt(store, call.pk, call.sk))
                 \cup {[PK |-> call.pk, SK |-> call.sk, count |-> call.before + 1,
                         ttl |-> call.ttl]}
  /\ rate' = Answered(call, call.before + 1)
  /\ UNCHANGED <<issued, pending, last, won, tomb, session, probe, clock>>

\* the write of incrementRateLimit, its result, and what enforceRateLimit
\* makes of it
IncrementWrite(call) ==
  /\ call \in rate.inflight
  /\ store' = RateIncremented(store, call.pk, call.sk, call.ttl)
  /\ rate' = Answered(call, RateCount(store, call.pk, call.sk) + 1)
  /\ UNCHANGED <<issued, pending, last, won, tomb, session, probe, clock>>

\* a second passes
Tick ==
  /\ clock < MaxClock
  /\ clock' = clock + 1
  /\ UNCHANGED <<store, issued, pending, last, won, tomb, session, probe, rate>>

NextRate ==
  \/ \E id \in RateIdentifiers, cfg \in RateConfigs, slot \in 1..MaxRateInflight :
       IncrementStart(id, cfg, slot)
  \/ \E call \in rate.inflight : IncrementWrite(call)
  \/ Tick

SpecRate == Init /\ [][NextRate]_vars

\* the policy of a name
ConfigOf(name) == CHOOSE cfg \in RateConfigs : cfg.name = name

\* C20: the result of an Increment for an identifier under a policy
\* (maxRequests M, windowSeconds W), the k-th served in its window, has
\* current = k and allowed = (k <= M); the window is the multiple of W that the
\* reading of the clock fell in, so the first Increment of a window has
\* current = 1 and is allowed, whatever the count of the window before.
RateResultIs(result, k, config) ==
  /\ k >= 1
  /\ result.current = k
  /\ result.allowed = (k <= config.maxRequests)
  /\ result.limit = config.maxRequests
  /\ result.window % config.windowSeconds = 0
  /\ result.window <= clock
  /\ k = 1 => result.current = 1 /\ result.allowed

C20_RateLimit ==
  rate.result.name # <<>> =>
    RateResultIs(rate.result,
                 Cardinality(ServedIn(rate.log, rate.result.identifier, rate.result.name,
                                      rate.result.window)),
                 ConfigOf(rate.result.name))

\* C20 witness: the first Increment of a window was allowed with current = 1
\* after the window before had refused its Increment number M + 1
C20_Witness ==
  /\ rate.result.name = <<"login">>
  /\ rate.result.window > 0
  /\ rate.result.current = 1
  /\ rate.result.allowed
  /\ <<rate.result.identifier, rate.result.name,
       rate.result.window - ConfigOf(rate.result.name).windowSeconds,
       ConfigOf(rate.result.name).maxRequests + 1>> \in rate.log

\* what the Increments for an identifier under a policy in a window were answered
ReturnedIn(identifier, name, window) ==
  {r \in rate.returned : r[1] = identifier /\ r[2] = name /\ r[3] = window}

\* C21: the n Increments served for one identifier under one policy in one
\* window, overlapping as they may, were answered the n counts 1..n, each
\* once, and at most maxRequests of them were allowed.
C21_NoLostIncrement ==
  \A e \in rate.log :
    /\ {r[4] : r \in ReturnedIn(e[1], e[2], e[3])}
         = 1..Cardinality(ServedIn(rate.log, e[1], e[2], e[3]))
    /\ Cardinality(ReturnedIn(e[1], e[2], e[3]))
         = Cardinality(ServedIn(rate.log, e[1], e[2], e[3]))
    /\ Cardinality({r \in ReturnedIn(e[1], e[2], e[3]) : r[5]})
         <= ConfigOf(e[2]).maxRequests

\* C21 witness: an Increment was answered 2 although none had been served in
\* its window when it read the clock: another one, started meanwhile, was
\* served first; and a third one is under way for the same counter
C21_Witness ==
  /\ rate.result.name # <<>>
  /\ rate.result.before = 0
  /\ rate.result.current = 2
  /\ UnderWayIn(rate.result.identifier, rate.result.name, rate.result.window) # {}

\* C24: with the table answering, enforceRateLimit raises TooManyRequestsError
\* exactly when the count its increment returned is above maxRequests, and
\* the retryAfter it carries is max(1, windowEnd - now), now being the clock
\* after the write and windowEnd the end of the window read before it; so
\* 1 <= retryAfter <= windowSeconds, also when the write lands on or after
\* the end of the window.
RetryAfterIs(result, enforced, config) ==
  /\ enforced.out = "TooManyRequestsError" <=> result.current > config.maxRequests
  /\ enforced.out \in {"ok", "TooManyRequestsError"}
  /\ enforced.out = "TooManyRequestsError" =>
       /\ enforced.retryAfter >= 1
       /\ enforced.retryAfter <= config.windowSeconds
       /\ enforced.retryAfter >= result.window + config.windowSeconds - result.at
       /\ enforced.retryAfter \in {1, result.window + config.windowSeconds - result.at}

C24_RetryAfter ==
  (rate.result.op = "increment" /\ ~rate.result.error) =>
    RetryAfterIs(rate.result, rate.enforced, ConfigOf(rate.result.name))

\* C24 witness: an enforceRateLimit that read the clock in one window and
\* whose write landed at the end of it or later has raised with retryAfter 1
C24_Witness ==
  /\ rate.result.op = "increment"
  /\ rate.enforced.out = "TooManyRequestsError"
  /\ rate.result.at >= rate.result.window + ConfigOf(rate.result.name).windowSeconds
  /\ rate.enforced.retryAfter = 1


-----------------------------------------------------------------------------
(* The rate limiter over a table that may refuse a request: the send of     *)
(* incrementRateLimit or of checkRateLimit raises, the write of the former  *)
(* having been applied or not.                                              *)

MaxFaults == 2

\* (mutation) the catch blocks refuse the request
RateFailClosed(op, identifier, config, now) ==
  [op |-> op, error |-> TRUE, at |-> now, identifier |-> identifier, name |-> config.name,
   window |-> WindowStart(now, config.windowSeconds), before |-> 0,
   allowed |-> FALSE, current |-> 0, limit |-> config.maxRequests,
   retryAfter |-> config.windowSeconds]

\* the result the catch blocks of checkRateLimit and incrementRateLimit return
RateFailOpen(op, identifier, config, now) ==
  [op |-> op, error |-> TRUE, at |-> now, identifier |-> identifier, name |-> config.name,
   window |-> WindowStart(now, config.windowSeconds), before |-> 0,
   allowed |-> TRUE, current |-> 0, limit |-> config.maxRequests,
   retryAfter |-> config.windowSeconds]

\* the send of incrementRateLimit raises
IncrementFail(call, applied) ==
  /\ call \in rate.inflight
  /\ rate.faults < MaxFaults
  /\ store' = IF applied THEN RateIncremented(store, call.pk, call.sk, call.ttl) ELSE store
  /\ rate' = [rate EXCEPT
                !.inflight = @ \ {call},
                !.faults = @ + 1,
                !.result = RateFailOpen("increment", call.identifier, call.config, clock),
                !.enforced = EnforceOutcome(RateFailOpen("increment", call.identifier,
                                                         call.config, clock))]
  /\ UNCHANGED <<issued, pending, last, won, tomb, session, probe, clock>>

\* (mutation) checkRateLimit compares as incrementRateLimit does
RateCheckedAtMost(identifier, config, current, now) ==
  [op |-> "check", error |-> FALSE, at |-> now, identifier |-> identifier,
   name |-> config.name, window |-> WindowStart(now, config.windowSeconds), before |-> 0,
   allowed |-> current <= config.maxRequests, current |-> current,
   limit |-> config.maxRequests,
   retryAfter |-> IF WindowStart(now, config.windowSeconds) + config.windowSeconds - now > 1
                  THEN WindowStart(now, config.windowSeconds) + config.windowSeconds - now
                  ELSE 1]

\* the result of checkRateLimit from the count it read
RateChecked(identifier, config, current, now) ==
  [op |-> "check", error |-> FALSE, at |-> now, identifier |-> identifier,
   name |-> config.name, window |-> WindowStart(now, config.windowSeconds), before |-> 0,
   allowed |-> current < config.maxRequests, current |-> current,
   limit |-> config.maxRequests,
   retryAfter |-> IF WindowStart(now, config.windowSeconds) + config.windowSeconds - now > 1
                  THEN WindowStart(now, config.windowSeconds) + config.windowSeconds - now
                  ELSE 1]

CheckRateLimit(identifier, config) ==
  /\ rate' = [rate EXCEPT
                !.result = RateChecked(identifier, config,
                             RateCount(store, buildRateLimitPK(identifier, config.name),
                                       buildRateLimitSK(clock, config.windowSeconds)),
                             clock)]
  /\ UNCHANGED <<store, issued, pending, last, won, tomb, session, probe, clock>>

\* the send of checkRateLimit raises
CheckFail(identifier, config) ==
  /\ rate' = [rate EXCEPT !.result = RateFailOpen("check", identifier, config, clock)]
  /\ UNCHANGED <<store, issued, pending, last, won, tomb, session, probe, clock>>

\* the clinic whose requests the table refuses at times, and its policy
FaultIdentifiers == {<<"A">>}

FaultConfigs == {cfg \in RateConfigs : cfg.name = <<"login">>}

NextRateFaults ==
  \/ \E id \in FaultIdentifiers, cfg \in FaultConfigs, slot \in 1..MaxRateInflight :
       IncrementStart(id, cfg, slot)
  \/ \E call \in rate.inflight : IncrementWrite(call)
  \/ \E call \in rate.inflight, applied \in BOOLEAN : IncrementFail(call, applied)
  \/ \E id \in FaultIdentifiers, cfg \in FaultConfigs : CheckRateLimit(id, cfg)
  \/ \E id \in FaultIdentifiers, cfg \in FaultConfigs : CheckFail(id, cfg)
  \/ Tick

SpecRateFaults == Init /\ [][NextRateFaults]_vars

\* C22: a checkRateLimit or incrementRateLimit whose request to the table
\* raised returns allowed = true with current = 0 (and the limit of its
\* policy), and the enforceRateLimit around such an incrementRateLimit
\* completes without raising; this whatever the counter holds.
C22_FailOpen ==
  rate.result.error =>
    /\ rate.result.allowed
    /\ rate.result.current = 0
    /\ rate.result.limit = ConfigOf(rate.result.name).maxRequests
    /\ rate.result.op = "increment" => rate.enforced.out = "ok"

\* C22 witness: an incrementRateLimit whose request raised was let through
\* although the counter of its window is beyond maxRequests
C22_Witness ==
  /\ rate.result.error
  /\ rate.result.op = "increment"
  /\ rate.enforced.out = "ok"
  /\ RateCount(store, buildRateLimitPK(rate.result.identifier, rate.result.name),
               <<"WINDOW", "#", rate.result.window>>)
       > ConfigOf(rate.result.name).maxRequests

-----------------------------------------------------------------------------
(* The notes repository over a table that may refuse a request: the send of *)
(* create(), update() or softDelete(), or the re-read in the catch block of *)
(* update(), raises an error that is no failed condition.  The refused      *)
(* request changes nothing in the table.                                    *)

StoreErrors == {"ProvisionedThroughputExceededException", "InternalServerError"}

\* (mutation) catch blocks that do not look at the name of the error
CaughtAny(op, name) ==
  CASE op = "update" -> "reread"
    [] op = "softDelete" -> "NotFound"
    [] OTHER -> name

\* what a function does with an error raised by its send: create() has no
\* catch; update() re-reads and softDelete() answers NotFound on
\* ConditionalCheckFailedException, and both rethrow anything else
Caught(op, name) ==
  IF name = "ConditionalCheckFailedException"
  THEN CASE op = "update" -> "reread"
         [] op = "softDelete" -> "NotFound"
         [] OTHER -> name
  ELSE name

\* the send of create(), update() or softDelete() raises the error name
WriteFault(op, clinicId, patientId, noteId, studyDate, expected, name) ==
  IF Caught(op, name) = "reread"
  THEN /\ Cardinality(pending) < MaxInflight
       /\ pending' = pending \cup
            {[clinicId |-> clinicId, patientId |-> patientId, noteId |-> noteId,
              studyDate |-> studyDate, expected |-> expected,
              seen |-> SeenAt(store, buildPK(clinicId, patientId),
                              buildSK(studyDate, noteId)),
              fault |-> name]}
       /\ UNCHANGED <<store, issued, last, won, tomb, session, probe, clock, rate>>
  ELSE /\ last' = [Returned(op, clinicId, patientId, noteId, studyDate,
                            Caught(op, name), <<>>)
                     EXCEPT !.expected = expected, !.fault = name]
       /\ UNCHANGED <<store, issued, pending, won, tomb, session, probe, clock, rate>>

\* the findById in the catch block of update() raises the error name
RereadFault(call, name) ==
  /\ call \in pending
  /\ pending' = pending \ {call}
  /\ last' = [Returned("update", call.clinicId, call.patientId, call.noteId,
                       call.studyDate, name, <<>>)
                EXCEPT !.expected = call.expected, !.seen = call.seen, !.fault = name]
  /\ UNCHANGED <<store, issued, won, tomb, session, probe, clock, rate>>

NextFaults ==
  \/ NextLife
  \/ \E op \in {"create", "update", "softDelete"}, n \in NoteIds, d \in MainDates,
        e \in 1..MaxVersion, name \in StoreErrors :
       WriteFault(op, MainScope.clinicId, MainScope.patientId, n, d,
                  IF op = "update" THEN e ELSE 0, name)
  \/ \E call \in pending, name \in StoreErrors : RereadFault(call, name)

SpecFaults == Init /\ [][NextFaults]_vars

\* C23: a create(), update() or softDelete() whose request to the table
\* raised an error that is no failed condition, and an update() whose re-read
\* raised, return that error to the caller: not success, not NotFound, not
\* Conflict, and no note; and no update() re-reads after such an error.
C23_FaultsPropagate ==
  /\ last.fault # "" =>
       /\ last.out = last.fault
       /\ last.out \notin {"ok", "NotFound", "Conflict"}
       /\ last.notes = <<>>
  /\ \A c \in pending : c.fault = ""

\* C23 witness: the re-read of an update() whose conditional write had met
\* the note at another version has raised, and update() has returned the
\* error
C23_Witness ==
  /\ last.op = "update"
  /\ last.fault \in StoreErrors
  /\ last.out = last.fault
  /\ last.seen > 0

-----------------------------------------------------------------------------
(* The key parsers: keys built from identifiers are parsed back, and        *)
(* strings that are no keys of notes are handed to the parsers.             *)

\* String.prototype.split('#'): the parts of s from position i on, cur being
\* the part under way
RECURSIVE SplitFrom(_, _, _, _)
SplitFrom(s, i, cur, parts) ==
  IF i > Len(s) THEN Append(parts, cur)
  ELSE IF s[i] = "#" THEN SplitFrom(s, i + 1, <<>>, Append(parts, cur))
  ELSE SplitFrom(s, i + 1, Append(cur, s[i]), parts)

\* the Error a parser throws
ParseFail == [ok |-> FALSE, first |-> <<>>, second |-> <<>>]

parsePK(pk) ==
  LET parts == SplitFrom(pk, 1, <<>>, <<>>)
  IN IF Len(parts) # 4 THEN ParseFail
     ELSE IF parts[1] # <<"CLINIC">> \/ parts[3] # <<"PATIENT">> THEN ParseFail
     ELSE [ok |-> TRUE, first |-> parts[2], second |-> parts[4]]

parseSK(sk) ==
  LET parts == SplitFrom(sk, 1, <<>>, <<>>)
  IN IF Len(parts) # 3 THEN ParseFail
     ELSE IF parts[1] # <<"NOTE">> THEN ParseFail
     ELSE [ok |-> TRUE, first |-> parts[2], second |-> parts[3]]

\* strings that are no keys of notes, or barely: other prefixes, keys of
\* other entities, parts missing or in excess, empty parts
OddKeys ==
  {<<>>, <<"METADATA">>, <<"CLINIC", "#", "A">>,
   <<"INVALID", "#", "A", "#", "PATIENT", "#", "y">>,
   <<"CLINIC", "#", "A", "#", "INVALID", "#", "y">>,
   <<"CLINIC", "#", "A", "#", "USER", "#", "y">>,
   <<"CLINIC", "x", "#", "A", "#", "PATIENT", "#", "y">>,
   <<"CLINIC", "#", "A", "#", "PATIENT", "#", "y", "#", "z">>,
   <<"CLINIC", "#", "#", "PATIENT", "#">>,
   <<"PATIENT", "#", "A", "#", "CLINIC", "#", "y">>,
   <<"NOTE", "#", "d1">>, <<"NOTE", "#", "d1", "#", "n1", "#", "x">>,
   <<"INVALID", "#", "d1", "#", "n1">>, <<"NOTE", "x", "#", "d1", "#", "n1">>,
   <<"NOTE", "#", "#">>, <<"#", "NOTE", "#", "d1">>,
   <<"RATELIMIT", "#", "login", "#", "A">>, <<"WINDOW", "#", "0">>}

NoTuple == [clinicId |-> <<>>, patientId |-> <<>>, studyDate |-> <<>>, noteId |-> <<>>]

\* the arguments: identifiers to build keys from, or a string to parse
ParseInputs ==
  {[op |-> "tuple", t |-> t, pk |-> <<>>, sk |-> <<>>,
    parsedPK |-> ParseFail, parsedSK |-> ParseFail] : t \in KeyTuples}
  \cup {[op |-> "string", t |-> NoTuple, pk |-> k, sk |-> k,
          parsedPK |-> ParseFail, parsedSK |-> ParseFail] : k \in OddKeys}

InitParse ==
  /\ store = {}
  /\ issued = 0
  /\ pending = {}
  /\ last = Returned("init", <<>>, <<>>, <<>>, <<>>, "", <<>>)
  /\ won = {}
  /\ tomb = {}
  /\ session = NoSession
  /\ clock = 0
  /\ rate = NoRate
  /\ probe \in ParseInputs

\* parsePK(buildPK(c, p)) and parseSK(buildSK(d, n))
BuildAndParse ==
  /\ probe.op = "tuple"
  /\ probe' = [probe EXCEPT
                 !.op = "built",
                 !.pk = buildPK(probe.t.clinicId, probe.t.patientId),
                 !.sk = buildSK(probe.t.studyDate, probe.t.noteId),
                 !.parsedPK = parsePK(buildPK(probe.t.clinicId, probe.t.patientId)),
                 !.parsedSK = parseSK(buildSK(probe.t.studyDate, probe.t.noteId))]
  /\ UNCHANGED <<store, issued, pending, last, won, tomb, session, clock, rate>>

\* parsePK and parseSK of a string
ParseString ==
  /\ probe.op = "string"
  /\ probe' = [probe EXCEPT !.op = "parsed", !.parsedPK = parsePK(probe.pk),
                            !.parsedSK = parseSK(probe.sk)]
  /\ UNCHANGED <<store, issued, pending, last, won, tomb, session, clock, rate>>

NextParse == BuildAndParse \/ ParseString

SpecParse == InitParse /\ [][NextParse]_vars

\* the positions of the delimiter in a string
Hashes(s) == {i \in 1..Len(s) : s[i] = "#"}

\* a string of the form CLINIC#c#PATIENT#p, c and p without delimiter
IsPKFormat(s) ==
  /\ Cardinality(Hashes(s)) = 3
  /\ Len(s) >= 2 /\ s[1] = "CLINIC" /\ s[2] = "#"
  /\ \E i \in Hashes(s) :
       /\ i > 2 /\ i + 2 <= Len(s)
       /\ s[i + 1] = "PATIENT" /\ s[i + 2] = "#"
       /\ Hashes(s) = {2, i, i + 2}

\* a string of the form NOTE#d#n, d and n without delimiter
IsSKFormat(s) ==
  /\ Cardinality(Hashes(s)) = 2
  /\ Len(s) >= 2 /\ s[1] = "NOTE" /\ s[2] = "#"

\* C25: parsePK(buildPK(c, p)) = (c, p) and parseSK(buildSK(d, n)) = (d, n)
\* for the identifiers the system accepts, and parsePK and parseSK throw on
\* every string that has not exactly the form CLINIC#c#PATIENT#p, NOTE#d#n.
C25_ParseInverts ==
  /\ probe.op = "built" =>
       /\ probe.parsedPK = [ok |-> TRUE, first |-> probe.t.clinicId,
                            second |-> probe.t.patientId]
       /\ probe.parsedSK = [ok |-> TRUE, first |-> probe.t.studyDate,
                            second |-> probe.t.noteId]
  /\ probe.op \in {"built", "parsed"} =>
       /\ ~IsPKFormat(probe.pk) => ~probe.parsedPK.ok
       /\ ~IsSKFormat(probe.sk) => ~probe.parsedSK.ok

-----------------------------------------------------------------------------
(* Service specification: the notes service in front of the repository.    *)
(* Callers of several clinics and permissions, patients of several scopes. *)
(* The search of listNotes (query.q), which filters a returned page in     *)
(* memory, is left out.                                                    *)

\* the notes of a run of the service
MaxServiceNotes == 1

\* the scopes of the patients: one plain, and two whose identifiers hold the
\* delimiter
ServiceScopes == {sc \in Scopes : sc.clinicId # <<"B">>}

NOTES_READ == "notes:read"
NOTES_WRITE == "notes:write"
NOTES_DELETE == "notes:delete"

\* AuthContext: the clinic and the scopes the caller's token carries
AuthContexts ==
  {[clinicId |-> c, userId |-> Creator.userId, username |-> Creator.username,
    scopes |-> s] :
     c \in {sc.clinicId : sc \in ServiceScopes},
     s \in {{}, {NOTES_READ}, {NOTES_READ, NOTES_WRITE},
            {NOTES_READ, NOTES_WRITE, NOTES_DELETE}}}

\* requireScopes with one scope: TRUE where it does not throw
requireScopes(auth, scope) == scope \in auth.scopes

\* assertPatientAccess: TRUE where it does not throw, that is where findById
\* of the patients repository (a GetCommand at the patient's key) has an item
assertPatientAccess(tbl, auth, patientId) ==
  ItemsAt(tbl, buildPK(auth.clinicId, patientId), <<"METADATA">>) # {}

\* a request arrives: the handler takes the caller from the token
Authenticate(auth) ==
  /\ probe' = auth
  /\ last' = Returned("init", <<>>, <<>>, <<>>, <<>>, "", <<>>)
  /\ UNCHANGED <<store, issued, pending, won, tomb, session, clock, rate>>

\* an error the service throws: the ForbiddenError of requireScopes and of
\* assertPatientAccess, the NotFoundError of updateNote and deleteNote
Thrown(op, patientId, noteId, out) ==
  /\ last' = Returned(op, probe.clinicId, patientId, noteId, <<>>, out, <<>>)
  /\ UNCHANGED <<store, issued, pending, won, tomb, session, probe, clock, rate>>

ActorOf(auth) == [userId |-> auth.userId, username |-> auth.username, now |-> Creator.now]

createNote(patientId, input, noteId) ==
  IF requireScopes(probe, NOTES_WRITE) /\ assertPatientAccess(store, probe, patientId)
  THEN Create(probe.clinicId, patientId, ActorOf(probe), input, noteId, MaxServiceNotes)
  ELSE Thrown("createNote", patientId, <<>>, "Forbidden")

getNote(patientId, noteId) ==
  IF requireScopes(probe, NOTES_READ) /\ assertPatientAccess(store, probe, patientId)
  THEN FindByIdWithoutStudyDate(probe.clinicId, patientId, noteId)
  ELSE Thrown("getNote", patientId, <<>>, "Forbidden")

listNotes(patientId, cursor, limit) ==
  IF requireScopes(probe, NOTES_READ) /\ assertPatientAccess(store, probe, patientId)
  THEN List(probe.clinicId, patientId, PlainOptions(cursor, limit))
  ELSE Thrown("listNotes", patientId, <<>>, "Forbidden")

\* updateNote up to the answer of the conditional write of update()
updateNote(patientId, noteId, input) ==
  IF requireScopes(probe, NOTES_WRITE) /\ assertPatientAccess(store, probe, patientId)
  THEN IF findByIdWithoutStudyDate(store, probe.clinicId, patientId, noteId) = <<>>
       THEN Thrown("updateNote", patientId, noteId, "NotFound")
       ELSE UpdateWrite(probe.clinicId, patientId, noteId,
                        findByIdWithoutStudyDate(store, probe.clinicId, patientId, noteId)[1].studyDate,
                        ActorOf(probe), input)
  ELSE Thrown("updateNote", patientId, <<>>, "Forbidden")

deleteNote(patientId, noteId) ==
  IF requireScopes(probe, NOTES_DELETE) /\ assertPatientAccess(store, probe, patientId)
  THEN IF findByIdWithoutStudyDate(store, probe.clinicId, patientId, noteId) = <<>>
       THEN Thrown("deleteNote", patientId, noteId, "NotFound")
       ELSE SoftDelete(probe.clinicId, patientId, noteId,
                       findByIdWithoutStudyDate(store, probe.clinicId, patientId, noteId)[1].studyDate,
                       ActorOf(probe))
  ELSE Thrown("deleteNote", patientId, <<>>, "Forbidden")

InitService ==
  /\ store = {}
  /\ issued = 0
  /\ pending = {}
  /\ last = Returned("init", <<>>, <<>>, <<>>, <<>>, "", <<>>)
  /\ won = {}
  /\ tomb = {}
  /\ session = NoSession
  /\ clock = 0
  /\ rate = NoRate
  /\ probe \in AuthContexts

ServicePatientIds == {sc.patientId : sc \in ServiceScopes}

\* a new title for version 1
ServiceUpdateInputs == {in \in MainUpdateInputs : in.version = 1}

NextService ==
  \/ \E auth \in AuthContexts : Authenticate(auth)
  \/ \E sc \in ServiceScopes : CreatePatient(sc.clinicId, sc.patientId, Creator)
  \/ \E p \in ServicePatientIds, in \in {i \in CreateInputs : i.studyDate \in MainDates},
        n \in NoteIds :
       createNote(p, in, n)
  \/ \E p \in ServicePatientIds, n \in NoteIds : getNote(p, n)
  \/ \E p \in ServicePatientIds : listNotes(p, NoCursor, MaxNotes)
  \/ \E p \in ServicePatientIds, n \in NoteIds, in \in ServiceUpdateInputs :
       updateNote(p, n, in)
  \/ \E call \in pending : UpdateReread(call)
  \/ \E p \in ServicePatientIds, n \in NoteIds : deleteNote(p, n)

SpecService == InitService /\ [][NextService]_vars

\* the scope an operation of the service requires, by the name of the
\* operation or of the repository call it ends in
RequiredScope(op) ==
  IF op \in {"createNote", "create", "updateNote", "update"} THEN NOTES_WRITE
  ELSE IF op \in {"deleteNote", "softDelete"} THEN NOTES_DELETE
  ELSE NOTES_READ

\* the patient has a record in the clinic
PatientOfClinic(tbl, clinicId, patientId) ==
  \E it \in tbl :
    it.SK = <<"METADATA">> /\ it.clinicId = clinicId /\ it.patientId = patientId

\* the caller has the scope of the operation and names a patient of its clinic
Entitled(tbl, auth, op, patientId) ==
  RequiredScope(op) \in auth.scopes /\ PatientOfClinic(tbl, auth.clinicId, patientId)

\* the names of the operations of the service and of the repository calls
\* they end in
NoteOps ==
  {"createNote", "getNote", "listNotes", "updateNote", "deleteNote",
   "create", "findByIdWithoutStudyDate", "list", "update", "softDelete"}

\* one step of a request: an answer of the service, or an update() under way
AccessStep ==
  /\ (last' # last /\ last'.op \in NoteOps /\ pending' = pending) =>
       IF Entitled(store, probe, last'.op, last'.patientId)
       THEN last'.out # "Forbidden" /\ last'.clinicId = probe.clinicId
       ELSE last'.out = "Forbidden" /\ store' = store
  /\ \A c \in pending' \ pending : Entitled(store, probe, "update", c.patientId)
  /\ (store' # store /\ last'.op # "createPatient") =>
       Entitled(store, probe, last'.op, last'.patientId)

\* C26: every operation of the notes service reads or writes a note record
\* only for a caller that has the required scope and names a patient with a
\* record in its clinic; any other caller gets Forbidden and the table is as
\* it was.
C26_ChecksBeforeNotes == [][AccessStep]_vars

-----------------------------------------------------------------------------
(* Patients specification: the patients of two clinics, of every status,   *)
(* in the table that also holds notes, and listPatients on it.             *)

\* the items one Scan request reads before it stops with a LastEvaluatedKey
\* (1 MB of data in the store)
MaxScanPage == 3

PatientStatuses == {"active", "inactive", "archived"}

PatientScopes ==
  {[clinicId |-> c, patientId |-> p] : c \in {<<"A">>, <<"B">>}, p \in {<<"y">>, <<"z">>}}

PatientAuths ==
  {[clinicId |-> c, userId |-> Creator.userId, username |-> Creator.username,
    scopes |-> s] : c \in {<<"A">>, <<"B">>}, s \in {{}, {NOTES_READ}}}

\* create() of the patients repository, with the status of the patient
CreatePatientRecord(clinicId, patientId, status) ==
  LET item == [status |-> status] @@ PatientItem(clinicId, patientId, Creator.now) IN
  /\ IF CreateCondition(store, item)
     THEN /\ store' = Put(store, item)
          /\ last' = Returned("createPatient", clinicId, patientId, <<>>, <<>>, "ok", <<>>)
     ELSE /\ store' = store
          /\ last' = Returned("createPatient", clinicId, patientId, <<>>, <<>>,
                              "ConditionalCheckFailedException", <<>>)
  /\ UNCHANGED <<issued, pending, won, tomb, session, probe, clock, rate>>

\* the items one ScanCommand reads: the whole table where it fits a page,
\* else the items of a page, in the order of the store
ScanPages(tbl) ==
  IF Cardinality(tbl) <= MaxScanPage THEN {tbl}
  ELSE {page \in SUBSET tbl : Cardinality(page) = MaxScanPage}

\* listByClinic on the items the scan has read: the filter expression
listByClinic(page, clinicId) ==
  {it \in page : it.clinicId = clinicId /\ it.entityType = <<"PATIENT">>}

\* listPatients: the patientId of each PatientDTO it returns
listPatients(auth) ==
  /\ IF requireScopes(auth, NOTES_READ)
     THEN \E page \in ScanPages(store) :
            last' = Returned("listPatients", auth.clinicId, <<>>, <<>>, <<>>, "ok",
                             {p.patientId : p \in {it \in listByClinic(page, auth.clinicId) :
                                                      it.status = "active"}})
     ELSE last' = Returned("listPatients", auth.clinicId, <<>>, <<>>, <<>>, "Forbidden", {})
  /\ UNCHANGED <<store, issued, pending, won, tomb, session, probe, clock, rate>>

NextPatients ==
  \/ \E sc \in PatientScopes, st \in PatientStatuses :
       CreatePatientRecord(sc.clinicId, sc.patientId, st)
  \/ \E in \in {i \in CreateInputs : i.studyDate \in MainDates}, n \in NoteIds :
       Create(MainScope.clinicId, MainScope.patientId, Creator, in, n, MaxServiceNotes)
  \/ \E auth \in PatientAuths : listPatients(auth)

SpecPatients == Init /\ [][NextPatients]_vars

\* the patients of a clinic that are active, by what the table stores
ActivePatientIds(tbl, clinicId) ==
  {it.patientId : it \in {x \in tbl : /\ x.SK = <<"METADATA">>
                                       /\ x.clinicId = clinicId
                                       /\ x.status = "active"}}

ListPatientsStep ==
  (last'.op = "listPatients" /\ last'.out = "ok") =>
    last'.notes = ActivePatientIds(store, last'.clinicId)

\* C27: listPatients returns exactly the patients whose stored clinicId is
\* the caller's and whose status is active.
C27_ListPatientsExact == [][ListPatientsStep]_vars

-----------------------------------------------------------------------------
(* The last page of a paging session, with soft-deleted notes in the       *)
(* partition (paging specification).                                       *)

\* the notes list() has yet to return after the call that returned r: the
\* active notes of the partition that match the options of the call and lie
\* below the last note of the page or, for an empty page, below the cursor
BeyondPage(tbl, r) ==
  {it \in tbl :
     /\ it.PK = buildPK(r.clinicId, r.patientId)
     /\ it.entityType = <<"NOTE">>
     /\ it.deletedAt = None
     /\ InRange(it.studyDate, r.studyDateFrom, r.studyDateTo)
     /\ r.tag # None => \E i \in 1..Len(it.tags) : it.tags[i] = r.tag
     /\ IF Len(r.notes) > 0 THEN StrLess(it.SK, NoteKey(r.notes[Len(r.notes)])[2])
        ELSE IF r.cursor # NoCursor /\ decodeCursor(r.cursor) # NoKey
        THEN StrLess(it.SK, decodeCursor(r.cursor).SK)
        ELSE TRUE}

\* a call of the session has returned
LastPageStep ==
  (session' # session /\ session'.state # "idle" /\ last'.out = "ok" /\ ~last'.hasMore) =>
    /\ last'.nextCursor = NoCursor
    /\ BeyondPage(store, last') = {}

\* C28: list() returns hasMore = false (and no cursor) only when no active
\* note that matches the date range and the tag remains beyond the page it
\* returns, soft-deleted notes lying among the items the query reads or not.
C28_LastPage == [][LastPageStep]_vars

-----------------------------------------------------------------------------
(* Patient-record specification: every call of the notes repository on a   *)
(* partition that also holds the patient's METADATA record.                *)

NextMeta ==
  \/ CreatePatient(MainScope.clinicId, MainScope.patientId, Creator)
  \/ \E in \in {i \in CreateInputs : i.studyDate \in MainDates}, n \in NoteIds :
       Create(MainScope.clinicId, MainScope.patientId, Creator, in, n, MaxNotes)
  \/ \E n \in NoteIds, d \in MainDates :
       FindById(MainScope.clinicId, MainScope.patientId, n, d)
  \/ \E n \in NoteIds :
       FindByIdWithoutStudyDate(MainScope.clinicId, MainScope.patientId, n)
  \/ \E c \in MainCursors, f \in Dates \cup {None}, t \in Dates \cup {None} :
       List(MainScope.clinicId, MainScope.patientId, RangeOptions(c, MaxNotes, f, t))
  \/ \E n \in NoteIds, d \in MainDates, in \in ServiceUpdateInputs :
       UpdateWrite(MainScope.clinicId, MainScope.patientId, n, d, Editor, in)
  \/ \E call \in pending :
       UpdateReread(call)
  \/ \E n \in NoteIds, d \in MainDates :
       SoftDelete(MainScope.clinicId, MainScope.patientId, n, d, Creator)
  \/ \E n \in NoteIds, d \in MainDates :
       HardDelete(MainScope.clinicId, MainScope.patientId, n, d)

SpecMeta == Init /\ [][NextMeta]_vars

\* the patient records of the table
MetadataItems == {it \in store : it.SK = <<"METADATA">>}

\* no call returns a patient record as a note, and no note has the sort key
\* of a patient record
MetadataApart ==
  /\ \A it \in MetadataItems, i \in 1..Len(last.notes) : last.notes[i] # itemToNote(it)
  /\ \A i \in 1..Len(last.notes) : last.notes[i].noteId # None
  /\ \A it \in store : it.entityType = <<"NOTE">> => it.SK # <<"METADATA">>

\* a patient record stays as it is
MetadataKept == \A it \in MetadataItems : it \in store'

\* C29: the patient's METADATA record is returned by no list() or get of the
\* notes repository, whatever studyDateFrom and studyDateTo, and is changed
\* by no update(), softDelete() or hardDelete(); no note has the sort key
\* METADATA.
C29_MetadataUntouched == [](MetadataApart) /\ [][MetadataKept]_vars

\* C29 witness: beside the patient's record, a list() with a lower date bound
\* only has returned a note, and a note of the partition was soft-deleted
C29_Witness ==
  /\ MetadataItems # {}
  /\ tomb # {}
  /\ last.op = "list"
  /\ last.studyDateFrom # None
  /\ last.studyDateTo = None
  /\ Len(last.notes) > 0

-----------------------------------------------------------------------------
(* Shared-table specification: the rate limiter and the notes repository   *)
(* on one table, which also holds the patient's record.                    *)

\* who is limited under which policy: an identifier under a policy, and
\* another identifier under another policy
SharedPairs ==
  {<<id, cfg>> \in RateIdentifiers \X RateConfigs :
     id = <<"A">> <=> cfg.name = <<"login">>}

\* the Increments and the seconds of a run on the shared table
MaxSharedIncrements == 3

MaxSharedClock == 2

NextShared ==
  \/ /\ Cardinality(rate.log) + Cardinality(rate.inflight) < MaxSharedIncrements
     /\ \E pair \in SharedPairs : IncrementStart(pair[1], pair[2], 1)
  \/ \E call \in rate.inflight : IncrementWrite(call)
  \/ /\ clock < MaxSharedClock
     /\ Tick
  \/ CreatePatient(MainScope.clinicId, MainScope.patientId, Creator)
  \/ \E in \in {i \in CreateInputs : i.studyDate \in MainDates}, n \in NoteIds :
       Create(MainScope.clinicId, MainScope.patientId, Creator, in, n, MaxServiceNotes)
  \/ List(MainScope.clinicId, MainScope.patientId, PlainOptions(NoCursor, MaxNotes))
  \/ \E n \in NoteIds, d \in MainDates, in \in ServiceUpdateInputs :
       UpdateWrite(MainScope.clinicId, MainScope.patientId, n, d, Editor, in)
  \/ \E call \in pending :
       UpdateReread(call)
  \/ \E n \in NoteIds, d \in MainDates :
       SoftDelete(MainScope.clinicId, MainScope.patientId, n, d, Creator)
  \/ \E n \in NoteIds, d \in MainDates :
       HardDelete(MainScope.clinicId, MainScope.patientId, n, d)

SpecShared == Init /\ [][NextShared]_vars

\* the items of the table under the prefix of the rate limiter
RateItems(tbl) == {it \in tbl : StartsWith(it.PK, <<"RATELIMIT", "#">>)}

\* the counter of an identifier under a policy in a window
CounterOf(tbl, identifier, name, window) ==
  RateCount(tbl, buildRateLimitPK(identifier, name), <<"WINDOW", "#", window>>)

\* counters lie under RATELIMIT#, notes and patients under CLINIC#, and no
\* read of notes returns a counter
PrefixesApart ==
  /\ \A call \in rate.inflight : StartsWith(call.pk, <<"RATELIMIT", "#">>)
  /\ \A it \in store :
       IF "count" \in DOMAIN it
       THEN StartsWith(it.PK, <<"RATELIMIT", "#">>)
       ELSE StartsWith(it.PK, <<"CLINIC", "#">>)
  /\ \A i \in 1..Len(last.notes) :
       \E it \in store \ RateItems(store) : NoteKey(last.notes[i]) = <<it.PK, it.SK>>

\* a step of the rate limiter leaves notes and patients as they are and
\* changes the counter of its own identifier, policy and window only; a step
\* of the notes repository leaves every counter as it is
SharedFrameStep ==
  /\ rate' # rate =>
       /\ store' \ RateItems(store') = store \ RateItems(store)
       /\ \A call \in rate.inflight \ rate'.inflight :
            \A pair \in RateIdentifiers \X RateConfigs, t \in 0..MaxClock :
              <<pair[1], pair[2].name, WindowStart(t, pair[2].windowSeconds)>>
                  # <<call.identifier, call.config.name, call.window>>
                => CounterOf(store', pair[1], pair[2].name, WindowStart(t, pair[2].windowSeconds))
                     = CounterOf(store, pair[1], pair[2].name, WindowStart(t, pair[2].windowSeconds))
  /\ rate' = rate => RateItems(store') = RateItems(store)

\* C30: the rate limiter reads and writes keys under RATELIMIT# only, the
\* notes repository never touches such a key, and an Increment for an
\* identifier under a policy changes no counter of another identifier,
\* policy or window.
C30_DisjointKeys == [](PrefixesApart) /\ [][SharedFrameStep]_vars

\* C30 witness: counters of two policies and of two windows of one policy
\* beside a soft-deleted note and the patient's record
C30_Witness ==
  /\ \E a, b \in RateItems(store) : a.PK # b.PK
  /\ \E a, b \in RateItems(store) : a.PK = b.PK /\ a.SK # b.SK
  /\ \E it \in store \ RateItems(store) : it.SK = <<"METADATA">>
  /\ tomb # {}

-----------------------------------------------------------------------------
(* Delete-race specification: deleteNote requests for one note that        *)
(* overlap.  Each request finds the note with findByIdWithoutStudyDate and *)
(* then calls softDelete(); the table serves the writes one at a time.     *)
(* The scope and patient checks of the service are taken as passed.        *)

MaxDeleters == 3

\* no deleteNote request was made
NoDeletes == [calls |-> {}, done |-> {}]

InitDelete ==
  /\ store = {}
  /\ issued = 0
  /\ pending = {}
  /\ last = Returned("init", <<>>, <<>>, <<>>, <<>>, "", <<>>)
  /\ won = {}
  /\ tomb = {}
  /\ session = NoSession
  /\ clock = 0
  /\ rate = NoRate
  /\ probe = NoDeletes

\* deleteNote up to the call of softDelete(): NotFoundError where
\* findByIdWithoutStudyDate returns null
DeleteFind(slot, actor, noteId) ==
  LET existing == findByIdWithoutStudyDate(store, MainScope.clinicId, MainScope.patientId, noteId)
      call == [slot |-> slot, actor |-> actor, noteId |-> noteId]
  IN /\ \A c \in probe.calls \cup probe.done : c.slot # slot
     /\ IF existing = <<>>
        THEN /\ probe' = [probe EXCEPT !.done = @ \cup
                            {[slot |-> slot, actor |-> actor, noteId |-> noteId,
                              studyDate |-> <<>>, found |-> FALSE, out |-> "NotFound"]}]
             /\ last' = Returned("deleteNote", MainScope.clinicId, MainScope.patientId,
                                 noteId, <<>>, "NotFound", <<>>)
        ELSE /\ probe' = [probe EXCEPT !.calls = @ \cup
                            {[slot |-> slot, actor |-> actor, noteId |-> noteId,
                              studyDate |-> existing[1].studyDate, found |-> TRUE,
                              out |-> ""]}]
             /\ last' = last
     /\ UNCHANGED <<store, issued, pending, won, tomb, session, clock, rate>>

\* softDelete() of a request under way: the conditional write and its answer
DeleteWrite(call) ==
  LET pk == buildPK(MainScope.clinicId, MainScope.patientId)
      sk == buildSK(call.studyDate, call.noteId)
  IN /\ call \in probe.calls
     /\ IF SoftDeleteCondition(store, pk, sk)
        THEN LET item == CHOOSE it \in ItemsAt(store, pk, sk) : TRUE IN
             /\ store' = (store \ {item})
                            \cup {SoftDeletedItem(item, call.actor.userId, call.actor.now)}
             /\ tomb' = tomb \cup {<<pk, sk>>}
             /\ last' = Returned("softDelete", MainScope.clinicId, MainScope.patientId,
                                 call.noteId, call.studyDate, "ok", <<>>)
             /\ probe' = [calls |-> probe.calls \ {call},
                          done |-> probe.done \cup {[call EXCEPT !.out = "ok"]}]
        ELSE /\ store' = store
             /\ tomb' = tomb
             /\ last' = Returned("softDelete", MainScope.clinicId, MainScope.patientId,
                                 call.noteId, call.studyDate, "NotFound", <<>>)
             /\ probe' = [calls |-> probe.calls \ {call},
                          done |-> probe.done \cup {[call EXCEPT !.out = "NotFound"]}]
     /\ UNCHANGED <<issued, pending, won, session, clock, rate>>

NextDelete ==
  \/ \E in \in {i \in CreateInputs : i.studyDate \in MainDates}, n \in NoteIds :
       Create(MainScope.clinicId, MainScope.patientId, Creator, in, n, MaxNotes)
  \/ \E slot \in 1..MaxDeleters, a \in Actors, n \in NoteIds : DeleteFind(slot, a, n)
  \/ \E call \in probe.calls : DeleteWrite(call)

SpecDelete == InitDelete /\ [][NextDelete]_vars

\* the requests for a note that found it active and have been answered
FoundAndDone(noteId) == {d \in probe.done : d.noteId = noteId /\ d.found}

\* the requests for a note that were answered without error
Winners(noteId) == {d \in probe.done : d.noteId = noteId /\ d.out = "ok"}

-----------------------------------------------------------------------------
(* The version a Conflict reports (main specification) *)

\* C32: whenever update() of a note that was active at its write fails with
\* Conflict, the current version it reports differs from the expectedVersion
\* the caller sent, whatever other update() of the note ran between its write
\* and its re-read.
C32_ConflictDiffers ==
  (last.op = "update" /\ last.out = "Conflict" /\ last.seen >= 1) =>
    last.current # last.expected

-----------------------------------------------------------------------------
(* Search: listNotes with a search term q. The service fetches a page of   *)
(* min(limit * 5, 100) notes from list(), filters it in memory and returns *)
(* the first limit matches with the cursor of the fetched page. A client   *)
(* pages by passing each nextCursor to its next call while hasMore holds.  *)

MaxSearchNotes == 6
MaxSearchLimit == 2

\* Math.min(limit * 5, 100)
FetchFactor == 5
FetchCap == 100

fetchLimit(limit) == IF limit * FetchFactor < FetchCap THEN limit * FetchFactor ELSE FetchCap

\* String.prototype.toLowerCase, on the letters the notes and terms are made of
LowerSym(c) ==
  CASE c = "S" -> "s"
    [] c = "T" -> "t"
    [] c = "C" -> "c"
    [] OTHER -> c

toLowerCase(text) == [i \in 1..Len(text) |-> LowerSym(text[i])]

\* String.prototype.includes
includes(text, term) ==
  \E i \in 0..(Len(text) - Len(term)) : SubSeq(text, i + 1, i + Len(term)) = term

\* the filter of the search branch
SearchMatch(note, searchTerm) ==
  \/ includes(toLowerCase(note.title), searchTerm)
  \/ includes(toLowerCase(note.content), searchTerm)

\* filteredItems.slice(0, limit)
Slice(items, limit) == IF Len(items) > limit THEN SubSeq(items, 1, limit) ELSE items

\* the search branch from the page of list() and the filtered notes on
SearchResult(limit, result, filteredItems) ==
  [err |-> result.err,
   items |-> Slice(filteredItems, limit),
   nextCursor |-> result.nextCursor,
   hasMore |-> Len(filteredItems) > limit \/ result.hasMore]

\* the search branch from the page of list() on
SearchFiltered(limit, searchTerm, result) ==
  SearchResult(limit, result,
               SelectSeq(result.items, LAMBDA note : SearchMatch(note, searchTerm)))

\* the search branch of listNotes
searchNotes(tbl, clinicId, patientId, cursor, limit, q) ==
  SearchFiltered(limit, toLowerCase(q),
                 list(tbl, clinicId, patientId, PlainOptions(cursor, fetchLimit(limit))))

\* listNotes with query.q and what it returns
listNotesSearch(patientId, cursor, limit, q) ==
  /\ last' = IF requireScopes(probe, NOTES_READ) /\ assertPatientAccess(store, probe, patientId)
             THEN [ListReturned(probe.clinicId, patientId, PlainOptions(cursor, limit),
                                searchNotes(store, probe.clinicId, patientId, cursor, limit, q))
                     EXCEPT !.op = "listNotes"]
             ELSE Returned("listNotes", probe.clinicId, patientId, <<>>, <<>>, "Forbidden", <<>>)
  /\ UNCHANGED <<store, issued, pending, won, tomb, probe, clock, rate>>

\* the patient whose notes are searched and the caller's token
SearchScope == MainScope

SearchAuth ==
  [clinicId |-> SearchScope.clinicId, userId |-> Creator.userId,
   username |-> Creator.username, scopes |-> {NOTES_READ}]

\* notes that match the term "s" by their title, by their content, or not at all
SearchCreateInputs ==
  {[studyDate |-> <<"d1">>, title |-> t[1], content |-> t[2], noteType |-> None,
    tags |-> NoTags, attachments |-> None] :
     t \in {<<<<"S", "T">>, <<"C">>>>, <<<<"T">>, <<"C", "a", "s">>>>, <<<<"T">>, <<"C">>>>}}

SearchTerms == {<<"S">>}

\* what the client keeps of a page of a search
SearchPageOf(r, q) ==
  [keys |-> PageKeys(r.notes), hasMore |-> r.hasMore, nextCursor |-> r.nextCursor, q |-> q]

\* after a page: refused, finished, to be continued, or told of more notes
\* without a cursor to ask for them
SearchState(r) ==
  IF r.out # "ok" THEN "refused"
  ELSE IF ~r.hasMore THEN "done"
  ELSE IF r.nextCursor = NoCursor THEN "stuck"
  ELSE "open"

\* the first call of a search: no cursor
SearchFirst(limit, q) ==
  /\ session.state = "idle"
  /\ listNotesSearch(SearchScope.patientId, NoCursor, limit, q)
  /\ session' = [state |-> SearchState(last'),
                 limit |-> limit,
                 pages |-> IF last'.out = "ok" THEN <<SearchPageOf(last', q)>> ELSE <<>>]

\* a further call: the nextCursor of the page before, the same term and limit
SearchNext ==
  /\ session.state = "open"
  /\ listNotesSearch(SearchScope.patientId, session.pages[Len(session.pages)].nextCursor,
                     session.limit, session.pages[1].q)
  /\ session' = [session EXCEPT !.state = SearchState(last'),
                                !.pages = IF last'.out = "ok"
                                          THEN Append(@, SearchPageOf(last', session.pages[1].q))
                                          ELSE @]

\* the client gives up or is done
SearchClose ==
  /\ session.state \in {"done", "stuck", "refused"}
  /\ session' = NoSession
  /\ UNCHANGED <<store, issued, pending, last, won, tomb, probe, clock, rate>>

InitSearch ==
  /\ store = {}
  /\ issued = 0
  /\ pending = {}
  /\ last = Returned("init", <<>>, <<>>, <<>>, <<>>, "", <<>>)
  /\ won = {}
  /\ tomb = {}
  /\ session = NoSession
  /\ clock = 0
  /\ rate = NoRate
  /\ probe = SearchAuth

NextSearch ==
  \/ /\ session.state = "idle"
     /\ CreatePatient(SearchScope.clinicId, SearchScope.patientId, Creator)
  \/ /\ session.state = "idle"
     /\ \E in \in SearchCreateInputs, n \in {IdOf(k) : k \in 1..MaxSearchNotes} :
          Create(SearchScope.clinicId, SearchScope.patientId, Creator, in, n, MaxSearchNotes)
  \/ \E l \in 1..MaxSearchLimit, q \in SearchTerms : SearchFirst(l, q)
  \/ SearchNext
  \/ SearchClose

SpecSearch == InitSearch /\ [][NextSearch]_vars

\* the keys of the active notes of the searched patient that match the term
Matching(q) ==
  {<<it.PK, it.SK>> :
     it \in {x \in store : /\ x.PK = buildPK(SearchScope.clinicId, SearchScope.patientId)
                           /\ StartsWith(x.SK, <<"NOTE", "#">>)
                           /\ x.deletedAt = None
                           /\ SearchMatch(x, toLowerCase(q))}}

\* C33: in a search every page with hasMore = true carries a nextCursor, no
\* note comes twice, and a search followed to hasMore = false has returned
\* each active note whose title or content holds the term, in any case of
\* letters, exactly once.
C33_SearchPaging ==
  session.pages # <<>> =>
    /\ \A i \in 1..Len(session.pages) :
         session.pages[i].hasMore => session.pages[i].nextCursor # NoCursor
    /\ \A i, j \in 1..Len(Flatten(session.pages)) :
         i # j => Flatten(session.pages)[i] # Flatten(session.pages)[j]
    /\ session.state = "done" =>
         {Flatten(session.pages)[i] : i \in 1..Len(Flatten(session.pages))}
           = Matching(session.pages[1].q)

\* every page with hasMore = true carries a nextCursor
SearchCursorWithMore ==
  \A i \in 1..Len(session.pages) :
    session.pages[i].hasMore => session.pages[i].nextCursor # NoCursor

\* a finished search has returned every matching note
SearchComplete ==
  (session.pages # <<>> /\ session.state = "done") =>
    {Flatten(session.pages)[i] : i \in 1..Len(Flatten(session.pages))}
      = Matching(session.pages[1].q)

\* a finished search returns no note that does not match and none twice
SearchSound ==
  session.pages # <<>> =>
    /\ \A i \in 1..Len(Flatten(session.pages)) :
         Flatten(session.pages)[i] \in Matching(session.pages[1].q)
    /\ \A i, j \in 1..Len(Flatten(session.pages)) :
         i # j => Flatten(session.pages)[i] # Flatten(session.pages)[j]

-----------------------------------------------------------------------------
(* checkRateLimit beside incrementRateLimit (the limiter with store errors) *)

\* the counter a result speaks of, as the table holds it
CounterOfResult(tbl, result) ==
  RateCount(tbl, buildRateLimitPK(result.identifier, result.name),
            <<"WINDOW", "#", result.window>>)

\* the last call of the limiter was a checkRateLimit that the table answered
CheckAnswered(result) == result.op = "check" /\ ~result.error

\* a step of checkRateLimit leaves the table as it is, and an Increment
\* answered next after an answered check, for the same policy, identifier and
\* window, is allowed exactly if the check said so
CheckStep ==
  /\ (rate'.result # rate.result /\ rate'.result.op = "check") => store' = store
  /\ ( /\ CheckAnswered(rate.result)
       /\ rate'.result.op = "increment"
       /\ ~rate'.result.error
       /\ rate'.result.identifier = rate.result.identifier
       /\ rate'.result.name = rate.result.name
       /\ rate'.result.window = rate.result.window )
       => rate'.result.allowed = rate.result.allowed

\* while no Increment has been answered since an answered check and its window
\* lasts, the check says allowed exactly if one more on the counter is allowed
CheckForetells ==
  ( /\ CheckAnswered(rate.result)
    /\ WindowStart(clock, ConfigOf(rate.result.name).windowSeconds) = rate.result.window
    /\ \A c \in rate.inflight : c.window = rate.result.window )
    => rate.result.allowed
         = RateAllowed(CounterOfResult(store, rate.result) + 1, ConfigOf(rate.result.name))

\* C34: checkRateLimit never creates or changes a counter, and when the table
\* answers it and no Increment comes between, it reports allowed = true
\* exactly when the next Increment for the same policy and identifier in the
\* same window returns allowed = true.
C34_CheckAgrees == [](CheckForetells) /\ [][CheckStep]_vars

\* C34 witness: a check found the counter at maxRequests and said no, while an
\* Increment for the same counter waits to write
C34_Witness ==
  /\ CheckAnswered(rate.result)
  /\ ~rate.result.allowed
  /\ rate.result.current = ConfigOf(rate.result.name).maxRequests
  /\ \E c \in rate.inflight :
       /\ c.identifier = rate.result.identifier
       /\ c.config.name = rate.result.name
       /\ c.window = rate.result.window

\* C34 (second witness): a check said yes with one request left in the window
C34_WitnessAllowed ==
  /\ CheckAnswered(rate.result)
  /\ rate.result.allowed
  /\ rate.result.current = ConfigOf(rate.result.name).maxRequests - 1
  /\ \E c \in rate.inflight : c.window = rate.result.window

-----------------------------------------------------------------------------
(* The requests a repository call sends.  Each call is followed from its    *)
(* entry through every docClient.send to its return; the table answers a    *)
(* request, fails its condition, or refuses it with an error.  Calls of     *)
(* several callers overlap.                                                 *)

MaxCallers == 2

MaxCallFaults == 1

\* no call has returned yet
NoReturn == [op |-> "none", sends |-> <<>>, first |-> "", out |-> ""]

\* the calls under way, the call that returned last, the errors so far
NoCalls == [calls |-> {}, done |-> NoReturn, faults |-> 0]

RepositoryOps ==
  {"create", "findById", "findByIdWithoutStudyDate", "list", "update", "softDelete",
   "hardDelete"}

\* the command a call sends where it stands
StoreCommand(call) ==
  CASE call.op = "create" -> "PutCommand"
    [] call.op = "findById" -> "GetCommand"
    [] call.op = "findByIdWithoutStudyDate" -> "QueryCommand"
    [] call.op = "list" -> "QueryCommand"
    [] call.op = "update" -> IF call.pc = "reread" THEN "GetCommand" ELSE "UpdateCommand"
    [] call.op = "softDelete" -> "UpdateCommand"
    [] call.op = "hardDelete" -> "DeleteCommand"

\* the item create() puts
CallItem(call) ==
  NewItem(MainScope.clinicId, MainScope.patientId, Creator.userId, Creator.username,
          CHOOSE in \in CreateInputs : in.studyDate = call.studyDate,
          call.noteId, Creator.now)

CallPK == buildPK(MainScope.clinicId, MainScope.patientId)

\* the ConditionExpression of the command holds, or it has none
ConditionOf(tbl, call) ==
  CASE call.op = "create" -> CreateCondition(tbl, CallItem(call))
    [] call.op = "update" /\ call.pc = "send" ->
         UpdateCondition(tbl, CallPK, buildSK(call.studyDate, call.noteId), call.version)
    [] call.op = "softDelete" ->
         SoftDeleteCondition(tbl, CallPK, buildSK(call.studyDate, call.noteId))
    [] OTHER -> TRUE

\* the table after a command the table carried out
TableAfter(tbl, call) ==
  CASE call.op = "create" -> Put(tbl, CallItem(call))
    [] call.op = "update" /\ call.pc = "send" ->
         (tbl \ ItemsAt(tbl, CallPK, buildSK(call.studyDate, call.noteId)))
           \cup {UpdatedItem(it, Editor.userId, Editor.username,
                             CHOOSE in \in MainUpdateInputs : in.version = call.version,
                             Editor.now) :
                   it \in ItemsAt(tbl, CallPK, buildSK(call.studyDate, call.noteId))}
    [] call.op = "softDelete" ->
         (tbl \ ItemsAt(tbl, CallPK, buildSK(call.studyDate, call.noteId)))
           \cup {SoftDeletedItem(it, Editor.userId, Editor.now) :
                   it \in ItemsAt(tbl, CallPK, buildSK(call.studyDate, call.noteId))}
    [] call.op = "hardDelete" ->
         tbl \ ItemsAt(tbl, CallPK, buildSK(call.studyDate, call.noteId))
    [] OTHER -> tbl

\* (mutation) a call that sends its request again when the table refuses it
AfterSendRetrying(call, answer) ==
  IF answer \in StoreErrors THEN call.pc
  ELSE IF call.pc = "send" /\ Caught(call.op, answer) = "reread" THEN "reread"
  ELSE "return"

\* where a call goes after the answer to its request: update() re-reads
\* after a failed condition, everything else returns or throws
AfterSend(call, answer) ==
  IF call.pc = "send" /\ Caught(call.op, answer) = "reread" THEN "reread"
  ELSE "return"

\* what a call returns or throws after its last request
CallOutcome(tbl, call, answer) ==
  IF answer # "ok"
  THEN (IF call.pc = "send" THEN Caught(call.op, answer) ELSE answer)
  ELSE IF call.op = "update" /\ call.pc = "reread"
  THEN (IF findById(tbl, MainScope.clinicId, MainScope.patientId, call.noteId,
                    call.studyDate) = <<>>
        THEN "NotFound" ELSE "Conflict")
  ELSE "ok"

\* a caller enters a function of the repository; create() draws its id
CallBegin(slot, op, noteId, studyDate, version) ==
  /\ \A c \in probe.calls : c.slot # slot
  /\ op = "create" => issued < MaxNotes /\ noteId = IdOf(issued + 1)
  /\ issued' = IF op = "create" THEN issued + 1 ELSE issued
  /\ probe' = [probe EXCEPT !.calls = @ \cup
                 {[slot |-> slot, op |-> op, noteId |-> noteId, studyDate |-> studyDate,
                   version |-> IF op = "update" THEN version ELSE 0,
                   pc |-> "send", sends |-> <<>>, first |-> ""]}]
  /\ UNCHANGED <<store, pending, last, won, tomb, session, clock, rate>>

\* the request of a call and the answer to it: "ok", a failed condition, or
\* an error of the table
CallSendAs(call, answer) ==
  /\ call \in probe.calls
  /\ answer \in StoreErrors => probe.faults < MaxCallFaults
  /\ (call.op = "update" /\ call.pc = "send" /\ answer = "ok") =>
       \A it \in ItemsAt(store, CallPK, buildSK(call.studyDate, call.noteId)) :
         it.version < MaxVersion
  /\ store' = IF answer = "ok" THEN TableAfter(store, call) ELSE store
  /\ probe' =
       IF AfterSend(call, answer) = "return"
       THEN [calls |-> probe.calls \ {call},
             done |-> [op |-> call.op, sends |-> Append(call.sends, StoreCommand(call)),
                       first |-> IF call.sends = <<>> THEN answer ELSE call.first,
                       out |-> CallOutcome(store, call, answer)],
             faults |-> IF answer \in StoreErrors THEN probe.faults + 1 ELSE probe.faults]
       ELSE [calls |-> (probe.calls \ {call}) \cup
               {[call EXCEPT !.pc = AfterSend(call, answer),
                             !.sends = Append(@, StoreCommand(call)),
                             !.first = IF call.sends = <<>> THEN answer ELSE @]},
             done |-> probe.done,
             faults |-> IF answer \in StoreErrors THEN probe.faults + 1 ELSE probe.faults]
  /\ UNCHANGED <<issued, pending, last, won, tomb, session, clock, rate>>

\* the table carries the request out, or fails its condition
CallSend(call) ==
  CallSendAs(call, IF ConditionOf(store, call) THEN "ok"
                   ELSE "ConditionalCheckFailedException")

\* the table refuses the request
CallFault(call, name) == CallSendAs(call, name)

InitCalls ==
  /\ store = {}
  /\ issued = 0
  /\ pending = {}
  /\ last = Returned("init", <<>>, <<>>, <<>>, <<>>, "", <<>>)
  /\ won = {}
  /\ tomb = {}
  /\ session = NoSession
  /\ clock = 0
  /\ rate = NoRate
  /\ probe = NoCalls

NextCalls ==
  \/ \E slot \in 1..MaxCallers, op \in RepositoryOps, n \in NoteIds, d \in MainDates,
        v \in 1..(MaxVersion - 1) :
       CallBegin(slot, op, n, d, v)
  \/ \E call \in probe.calls : CallSend(call)
  \/ \E call \in probe.calls, name \in StoreErrors : CallFault(call, name)

SpecCalls == InitCalls /\ [][NextCalls]_vars

\* C35: every call of the repository sends a bounded number of requests and
\* none again: create, findById, list, softDelete and hardDelete (and
\* findByIdWithoutStudyDate) return after exactly one, update after its
\* conditional write or, only when the condition of the write failed, after
\* one GetCommand more; a call under way has sent nothing, or is the update
\* about to re-read.
C35_BoundedSends ==
  /\ probe.done.op \notin {"none", "update"} =>
       probe.done.sends = <<StoreCommand([op |-> probe.done.op, pc |-> "send"])>>
  /\ probe.done.op = "update" =>
       \/ /\ probe.done.sends = <<"UpdateCommand">>
          /\ probe.done.first # "ConditionalCheckFailedException"
       \/ /\ probe.done.sends = <<"UpdateCommand", "GetCommand">>
          /\ probe.done.first = "ConditionalCheckFailedException"
  /\ \A c \in probe.calls :
       \/ c.pc = "send" /\ c.sends = <<>>
       \/ c.op = "update" /\ c.pc = "reread" /\ c.sends = <<"UpdateCommand">>

\* C35 witness: an update whose condition failed because another update had
\* written first has returned Conflict after its write and one GetCommand,
\* while a further call waits to send its request
C35_Witness ==
  /\ probe.done.op = "update"
  /\ probe.done.sends = <<"UpdateCommand", "GetCommand">>
  /\ probe.done.out = "Conflict"
  /\ \E it \in store : it.version = 2
  /\ \E c \in probe.calls : c.sends = <<>>

\* C35 (second witness): a call the table refused has returned the error
\* after its one request
C35_WitnessFault ==
  /\ probe.done.out \in StoreErrors
  /\ Len(probe.done.sends) = 1
  /\ probe.faults = 1

-----------------------------------------------------------------------------
(* hardDelete beside the service: the operations of the notes service, and  *)
(* hardDelete() of the repository called from outside the service, as its   *)
(* tests do.                                                                *)

NextHard ==
  \/ NextService
  \/ \E sc \in ServiceScopes, n \in NoteIds, d \in MainDates :
       HardDelete(sc.clinicId, sc.patientId, n, d)

SpecHard == InitService /\ [][NextHard]_vars

\* the keys the table holds
KeysOf(tbl) == {<<it.PK, it.SK>> : it \in tbl}

\* a hardDelete() that has just returned: it did not throw, the table lost what
\* it held at the key and nothing else, and findById has nothing there
HardDeleteDone ==
  /\ last'.out = "ok"
  /\ store' = store \ ItemsAt(store, buildPK(last'.clinicId, last'.patientId),
                              buildSK(last'.studyDate, last'.noteId))
  /\ ItemsAt(store', buildPK(last'.clinicId, last'.patientId),
             buildSK(last'.studyDate, last'.noteId)) = {}
  /\ findById(store', last'.clinicId, last'.patientId, last'.noteId, last'.studyDate) = <<>>

\* a step of hardDelete() does the above, and a step of an operation of the
\* service returns from no hardDelete() and takes no item from the table
HardDeleteStep ==
  /\ (last'.op = "hardDelete" /\ (last' # last \/ store' # store)) => HardDeleteDone
  /\ NextService => /\ last' # last => last'.op # "hardDelete"
                    /\ KeysOf(store) \subseteq KeysOf(store')

\* C36: hardDelete() removes the item at the key it is given, active or
\* soft-deleted, returns without error also where there is none, and leaves
\* findById with nothing there; and no operation of the service calls it:
\* the service never takes an item from the table.
C36_HardDelete == [][HardDeleteStep]_vars

\* C36 witness: the one note ever created was soft-deleted through the
\* service and is gone from the table after a hardDelete()
C36_Witness ==
  /\ last.op = "hardDelete"
  /\ last.out = "ok"
  /\ issued = 1
  /\ last.noteId = IdOf(1)
  /\ \A it \in store : it.SK = <<"METADATA">>
  /\ store # {}

-----------------------------------------------------------------------------
(* The identity of a stored note (main specification) *)

\* the notes the table holds
NoteItems(tbl) == {it \in tbl : StartsWith(it.SK, <<"NOTE", "#">>)}

\* what create() sets once: who the note is, where it is filed, who made it
IdentityOf(it) ==
  <<it.noteId, it.clinicId, it.patientId, it.studyDate, it.createdAt, it.createdBy>>

\* every note is stored at the key built from its own fields
KeysFromFields ==
  \A it \in NoteItems(store) :
    /\ it.PK = buildPK(it.clinicId, it.patientId)
    /\ it.SK = buildSK(it.studyDate, it.noteId)

\* no two notes of a partition have the same noteId
OnePerNoteId ==
  \A a, b \in NoteItems(store) : (a.PK = b.PK /\ a.noteId = b.noteId) => a = b

\* a note that stays at its key keeps its identity, and a note that comes to
\* a free key is the one create() has just returned, made by its caller
IdentityStep ==
  \A new \in NoteItems(store') :
    IF ItemsAt(store, new.PK, new.SK) # {}
    THEN \A old \in ItemsAt(store, new.PK, new.SK) : IdentityOf(new) = IdentityOf(old)
    ELSE /\ last'.op = "create"
         /\ last'.out = "ok"
         /\ last'.notes = <<itemToNote(new)>>
         /\ new.createdAt = Creator.now
         /\ new.createdBy = Creator.userId
         /\ new.version = 1

-----------------------------------------------------------------------------
(* The createNote handler: extractAuthContext, enforceRateLimit for the     *)
(* clinic under the createNote policy, validation of path and body, then    *)
(* createNote of the service.  Requests overlap; the clock moves on; the    *)
(* table may refuse the write of the limiter, having applied it or not.     *)

MaxRequests == 3

MaxHandlers == 2

MaxHandlerFaults == 1

MaxHandlerClock == 2

\* RATE_LIMITS.createNote, with small numbers
CreateNoteConfig == [name |-> <<"createNote">>, maxRequests |-> 1, windowSeconds |-> 2]

\* a request without JWT claims
NoAuth == [clinicId |-> <<>>, userId |-> <<>>, username |-> <<>>, scopes |-> {}]

\* tokens of the clinic: one that may write notes, one that may only read
HandlerAuths ==
  {NoAuth}
  \cup {[clinicId |-> MainScope.clinicId, userId |-> Creator.userId,
          username |-> Creator.username, scopes |-> sc] :
          sc \in {{NOTES_READ}, {NOTES_READ, NOTES_WRITE}}}

NoResponse == [slot |-> 0, out |-> ""]

\* the requests under way, the last response, and history: the requests
\* received and answered, those that came with a token, the sends of the
\* limiter that raised, and those of them the table had not applied
NoRequests ==
  [flight |-> {}, response |-> NoResponse, started |-> 0, answered |-> 0,
   tokens |-> 0, lost |-> 0, faults |-> 0]

\* the response to a request, which is over with it
Responded(r, out) ==
  [probe EXCEPT !.flight = @ \ {r}, !.response = [slot |-> r.slot, out |-> out],
                !.answered = @ + 1]

\* extractAuthContext, and incrementRateLimit up to its write: the clock is
\* read and the key built
HandlerStart(slot, auth, valid) ==
  /\ probe.started < MaxRequests
  /\ \A r \in probe.flight : r.slot # slot
  /\ probe' =
       IF auth = NoAuth
       THEN [probe EXCEPT !.started = @ + 1, !.answered = @ + 1,
                          !.response = [slot |-> slot, out |-> "UnauthorizedError"]]
       ELSE [probe EXCEPT !.started = @ + 1, !.tokens = @ + 1,
                          !.flight = @ \cup
               {[slot |-> slot, auth |-> auth, valid |-> valid, pc |-> "limit",
                 identifier |-> auth.clinicId, config |-> CreateNoteConfig,
                 pk |-> buildRateLimitPK(auth.clinicId, CreateNoteConfig.name),
                 sk |-> buildRateLimitSK(clock, CreateNoteConfig.windowSeconds),
                 window |-> WindowStart(clock, CreateNoteConfig.windowSeconds),
                 before |-> 0,
                 ttl |-> WindowStart(clock, CreateNoteConfig.windowSeconds)
                           + CreateNoteConfig.windowSeconds + 60]}]
  /\ UNCHANGED <<store, issued, pending, last, won, tomb, session, clock, rate>>

\* (mutation) a handler that validates before it asks the limiter
HandlerLimitValidFirst(r, applied, result) ==
  /\ r \in probe.flight
  /\ r.pc = "limit"
  /\ store' = IF applied /\ r.valid THEN RateIncremented(store, r.pk, r.sk, r.ttl) ELSE store
  /\ probe' =
       [(IF ~r.valid THEN Responded(r, "ValidationError")
         ELSE IF EnforceOutcome(result).out = "ok"
         THEN [probe EXCEPT !.flight = (@ \ {r}) \cup {[r EXCEPT !.pc = "create"]}]
         ELSE Responded(r, EnforceOutcome(result).out))
        EXCEPT !.lost = IF applied \/ ~r.valid THEN @ ELSE @ + 1,
               !.faults = IF result.error THEN @ + 1 ELSE @]
  /\ UNCHANGED <<issued, pending, last, won, tomb, session, clock, rate>>

\* enforceRateLimit from the write of incrementRateLimit on: the write is
\* applied or not, the limiter has the given result
HandlerLimitAs(r, applied, result) ==
  /\ r \in probe.flight
  /\ r.pc = "limit"
  /\ store' = IF applied THEN RateIncremented(store, r.pk, r.sk, r.ttl) ELSE store
  /\ probe' =
       [(IF EnforceOutcome(result).out = "ok"
         THEN [probe EXCEPT !.flight = (@ \ {r}) \cup {[r EXCEPT !.pc = "create"]}]
         ELSE Responded(r, EnforceOutcome(result).out))
        EXCEPT !.lost = IF applied THEN @ ELSE @ + 1,
               !.faults = IF result.error THEN @ + 1 ELSE @]
  /\ UNCHANGED <<issued, pending, last, won, tomb, session, clock, rate>>

\* the table carries the write out
HandlerLimit(r) ==
  HandlerLimitAs(r, TRUE, RateLimitResult(r, RateCount(store, r.pk, r.sk) + 1, clock))

\* the send raises: incrementRateLimit answers from its catch block
HandlerLimitFault(r, applied) ==
  /\ probe.faults < MaxHandlerFaults
  /\ HandlerLimitAs(r, applied, RateFailOpen("increment", r.identifier, r.config, clock))

\* what the handler answers after the limiter let the request through: the
\* schemas reject it, the service refuses it, or the note is created
HandlerOutcome(tbl, r) ==
  IF ~r.valid THEN "ValidationError"
  ELSE IF ~(requireScopes(r.auth, NOTES_WRITE)
            /\ assertPatientAccess(tbl, r.auth, MainScope.patientId))
  THEN "Forbidden"
  ELSE "created"

\* the rest of the handler: validation, then createNote of the service
HandlerCreate(r) ==
  /\ r \in probe.flight
  /\ r.pc = "create"
  /\ HandlerOutcome(store, r) = "created" => issued < MaxRequests
  /\ IF HandlerOutcome(store, r) = "created"
     THEN /\ store' = Put(store, NewItem(r.auth.clinicId, MainScope.patientId, r.auth.userId,
                                         r.auth.username,
                                         CHOOSE in \in CreateInputs : in.studyDate \in MainDates,
                                         IdOf(issued + 1), Creator.now))
          /\ issued' = issued + 1
     ELSE UNCHANGED <<store, issued>>
  /\ probe' = Responded(r, HandlerOutcome(store, r))
  /\ UNCHANGED <<pending, last, won, tomb, session, clock, rate>>

\* a second passes
HandlerTick ==
  /\ clock < MaxHandlerClock
  /\ clock' = clock + 1
  /\ UNCHANGED <<store, issued, pending, last, won, tomb, session, probe, rate>>

InitHandler ==
  /\ store = {}
  /\ issued = 0
  /\ pending = {}
  /\ last = Returned("init", <<>>, <<>>, <<>>, <<>>, "", <<>>)
  /\ won = {}
  /\ tomb = {}
  /\ session = NoSession
  /\ clock = 0
  /\ rate = NoRate
  /\ probe = NoRequests

NextHandler ==
  \/ CreatePatient(MainScope.clinicId, MainScope.patientId, Creator)
  \/ \E slot \in 1..MaxHandlers, auth \in HandlerAuths, valid \in BOOLEAN :
       HandlerStart(slot, auth, valid)
  \/ \E r \in probe.flight : HandlerLimit(r)
  \/ \E r \in probe.flight, applied \in BOOLEAN : HandlerLimitFault(r, applied)
  \/ \E r \in probe.flight : HandlerCreate(r)
  \/ HandlerTick

SpecHandler == InitHandler /\ [][NextHandler]_vars

RECURSIVE SumCounts(_)
SumCounts(items) ==
  IF items = {} THEN 0
  ELSE LET it == CHOOSE x \in items : TRUE IN it.count + SumCounts(items \ {it})

\* the createNote counters of the clinic, all windows together
CreateNoteCount(tbl) ==
  SumCounts({it \in tbl :
               it.PK = buildRateLimitPK(MainScope.clinicId, CreateNoteConfig.name)})

\* a request the limiter refused is answered with the rate-limit error, is
\* over, and the table has the notes it had; a note comes to the table only
\* in the answer "created" to a request the limiter had let through
LimitBeforeWrite ==
  /\ (probe'.answered # probe.answered /\ probe'.response.out = "TooManyRequestsError") =>
       /\ NoteItems(store') = NoteItems(store)
       /\ \A r \in probe'.flight : r.slot # probe'.response.slot
       /\ \E r \in probe.flight : r.slot = probe'.response.slot /\ r.pc = "limit"
  /\ NoteItems(store') # NoteItems(store) =>
       /\ probe'.response.out = "created"
       /\ \E r \in probe.flight : r.slot = probe'.response.slot /\ r.pc = "create"

\* the requests with a token that have not reached the write of the limiter
AtLimit == {r \in probe.flight : r.pc = "limit"}

\* the counter holds one for every request with a token that is past its
\* enforceRateLimit, whatever the handler answered it afterwards
CountedOnce == CreateNoteCount(store) = probe.tokens - Cardinality(AtLimit)

\* as CountedOnce, but for the writes the table refused and did not apply
CountedUnlessLost ==
  /\ CreateNoteCount(store) = probe.tokens - Cardinality(AtLimit) - probe.lost
  /\ probe.lost <= probe.faults

\* C38 as stated: the limiter is enforced before the note is written, a
\* refused request creates no note, and every request with a token adds
\* exactly one to the createNote counter of its clinic.
C38_CountsEveryRequest == [](CountedOnce) /\ [][LimitBeforeWrite]_vars

\* C38 amended: as stated, except that a request whose write to the counter
\* the table refused without applying it is let through uncounted.
C38_CountsUnlessLost == [](CountedUnlessLost) /\ [][LimitBeforeWrite]_vars

\* C38 witness: of two requests with a token in one window the first was
\* counted and then failed validation or authorization, the second was
\* refused by the limiter; the counter says 2 and the table holds no note
C38_Witness ==
  /\ probe.response.out = "TooManyRequestsError"
  /\ probe.answered = 2
  /\ probe.tokens = 2
  /\ probe.lost = 0
  /\ CreateNoteCount(store) = 2
  /\ NoteItems(store) = {}
  /\ \A it \in store : StartsWith(it.PK, <<"RATELIMIT", "#">>)


=============================================================================
